---- MODULE Spec2Model ----
(***************************************************************************)
(* The level-simulation engine of GameScene.ts: executeCommands and the    *)
(* resolvers it dispatches to (moveHero, turnHero, collectGem,             *)
(* attackEnemy), the adjacency retaliation (checkAdjacentEnemies,          *)
(* performEnemyAttack, handleHeroDeath) and checkWinCondition.             *)
(* One run is an async function; the model has one action per stretch of   *)
(* code between two awaits, and pc is the position of the run.             *)
(* Beside the scene: PythonRunner (initialize, runCode, destroy and the     *)
(* command API injected into the interpreter) and LocalStorage's progress  *)
(* record as the level page's handleLevelComplete uses it.                 *)
(***************************************************************************)
EXTENDS Integers, Sequences, FiniteSets, TLC

VARIABLES
    level,              \* this.level (static level definition)
    heroPosition,       \* this.heroPosition
    heroDirection,      \* this.heroDirection
    heroHealth,         \* this.heroHealth
    heroDead,           \* this.heroDead
    isExecuting,        \* this.isExecuting
    enemies,            \* this.enemies (Map, in insertion order)
    collectedIds,       \* this.collectedIds
    defeatedEnemies,    \* this.defeatedEnemies
    commands,           \* the argument of executeCommands
    ci,                 \* index of the command the for loop is at
    pc,                 \* position of the run inside executeCommands
    adjacentEnemies,    \* checkAdjacentEnemies: the pass's snapshot
    ai,                 \* checkAdjacentEnemies: index of the inner for loop
    enemyAhead,         \* attackEnemy: the target captured on entry (0 = null)
    verdicts,           \* the onComplete calls of the current run, in order
    passLog,            \* history: ids that attacked in the current pass
    hitBy,              \* history: ids that attacked since the last move
    healthAtMove,       \* history: the hero's health when it last moved
    atCommand,          \* history: the world when the current command began
    hits,               \* history: per enemy, the attacks that have hit it
    afterRun,           \* history: this call began after an earlier run finished
    abandoned,          \* the scene was restarted during the current call
    overlap,            \* what became of a call that arrived during the current one
    initialized,        \* PythonRunner.initialized
    pyodide,            \* PythonRunner.pyodide: "null" or the interpreter
    py,                 \* the interpreter's globals (ROVER_API)
    ipc,                \* position of a call of initialize
    rpc,                \* position of a call of runCode
    code,               \* the argument of runCode: the script's statements
    result,             \* what the call of runCode returned (NoResult until it has)
    leftover,           \* history: _commands as the current call found it
    sensed,             \* history: the sensor reads of the current script
    reloaded,           \* history: an interpreter was loaded during the current call
    storageAvailable,   \* whether window.localStorage can be written
    stored,             \* the localStorage item STORAGE_KEYS.PROGRESS
    defaultCompleted    \* the array DEFAULT_PROGRESS.completedLevels

vars == <<level, heroPosition, heroDirection, heroHealth, heroDead, isExecuting,
          enemies, collectedIds, defeatedEnemies, commands, ci, pc,
          adjacentEnemies, ai, enemyAhead, verdicts, passLog, hitBy,
          healthAtMove, atCommand, hits, afterRun, abandoned, overlap,
          initialized, pyodide, py, ipc, rpc, code, result, leftover, sensed,
          reloaded, storageAvailable, stored, defaultCompleted>>

\* The variables of the scene, of the runner and of the storage.
scene == <<level, heroPosition, heroDirection, heroHealth, heroDead, isExecuting,
           enemies, collectedIds, defeatedEnemies, commands, ci, pc,
           adjacentEnemies, ai, enemyAhead, verdicts, passLog, hitBy,
           healthAtMove, atCommand, hits, afterRun, abandoned, overlap>>

runner == <<initialized, pyodide, py, ipc, rpc, code, result, leftover, sensed,
            reloaded>>

storage == <<storageAvailable, stored, defaultCompleted>>

\* What no method of the scene touches.
outsideScene == <<runner, storage>>

\* The history variables, which no action reads.
history == <<passLog, hitBy, healthAtMove, atCommand, hits, afterRun,
             abandoned, overlap>>

\* The marks of what went on around the current call of executeCommands.
calls == <<afterRun, abandoned, overlap>>

\* The part of the state the spec calls the World Model.
world == <<heroPosition, heroDirection, heroHealth, enemies, collectedIds,
           defeatedEnemies>>

\* The world as a record, for the history variable atCommand.
Snapshot ==
    [heroPosition |-> heroPosition, heroDirection |-> heroDirection,
     heroHealth |-> heroHealth, enemies |-> enemies,
     collectedIds |-> collectedIds, defeatedEnemies |-> defeatedEnemies]

----------------------------------------------------------------------------
\* Bounds of the model

MaxCommands == 3

----------------------------------------------------------------------------
\* Program constants

heroMaxHealth == 100

attackDamage == 20

Pos(x, y) == [x |-> x, y |-> y]

GameCommand == {"move_forward", "move_backward", "turn_left", "turn_right",
                "collect_sample", "attack"}

\* 'collect' is a PythonCommand the interpreter has no case for.
UnknownCommand == "collect"

DefeatMessage == [text |-> "Your hero has fallen! Try again.", lines |-> <<>>]

CompleteMessage == [text |-> "Quest Complete!", lines |-> <<>>]

IncompleteMessage(lines) == [text |-> "Quest incomplete:", lines |-> lines]

----------------------------------------------------------------------------
\* Level definitions (types.ts Level; only the fields the engine reads).
\* An optional field (goal.target, goal.count) is a sequence of length 0 or 1.

ReachPosition(x, y, description) ==
    [type |-> "reach_position", target |-> <<Pos(x, y)>>, count |-> <<>>,
     collectibleType |-> "", description |-> description]

PlainGoal(type, description) ==
    [type |-> type, target |-> <<>>, count |-> <<>>,
     collectibleType |-> "", description |-> description]

CollectType(type, count, description) ==
    [type |-> "collect_type", target |-> <<>>, count |-> count,
     collectibleType |-> type, description |-> description]

EnemyDef(id, x, y, health, damage) ==
    [id |-> id, position |-> Pos(x, y), health |-> health, damage |-> damage]

CollectibleDef(id, type, x, y) ==
    [id |-> id, type |-> type, position |-> Pos(x, y)]

\* Level 1-1: 5x3 open grid, reach (3,1).
level_1_1 ==
    [id |-> "1-1", gridWidth |-> 5, gridHeight |-> 3, walls |-> {},
     startPosition |-> Pos(0, 1), startDirection |-> "right",
     goals |-> <<ReachPosition(3, 1, "Reach the goal")>>,
     collectibles |-> <<>>, enemies |-> <<>>,
     maxExecutionSteps |-> 50,
     solutionCode |-> <<"move_forward", "move_forward", "move_forward">>]

\* Level 2-1: the orc guard (40 HP, 10 damage) two cells ahead of the start.
level_2_1 ==
    [id |-> "2-1", gridWidth |-> 4, gridHeight |-> 3, walls |-> {},
     startPosition |-> Pos(0, 1), startDirection |-> "right",
     goals |-> <<PlainGoal("defeat_enemies", "Defeat the orc"),
                 ReachPosition(3, 1, "Reach the goal")>>,
     collectibles |-> <<>>,
     enemies |-> <<EnemyDef("orc1", 2, 1, 40, 10)>>,
     maxExecutionSteps |-> 50,
     solutionCode |-> <<"move_forward", "attack", "attack", "move_forward">>]

\* Level 1-2: a wall of three cells across the direct path.
level_1_2 ==
    [id |-> "1-2", gridWidth |-> 5, gridHeight |-> 5,
     walls |-> {Pos(2, 1), Pos(2, 2), Pos(2, 3)},
     startPosition |-> Pos(0, 2), startDirection |-> "right",
     goals |-> <<ReachPosition(4, 2, "Reach the goal")>>,
     collectibles |-> <<>>, enemies |-> <<>>,
     maxExecutionSteps |-> 100,
     solutionCode |-> <<"move_forward", "turn_left", "move_forward", "turn_right",
                        "move_forward", "move_forward", "move_forward">>]

\* Level 1-3: fetch the sample and come back to the start.
level_1_3 ==
    [id |-> "1-3", gridWidth |-> 6, gridHeight |-> 3, walls |-> {},
     startPosition |-> Pos(0, 1), startDirection |-> "right",
     goals |-> <<PlainGoal("collect_all", "Collect the sample"),
                 ReachPosition(0, 1, "Return to base")>>,
     collectibles |-> <<CollectibleDef("sample-1", "sample", 3, 1)>>,
     enemies |-> <<>>,
     maxExecutionSteps |-> 100,
     solutionCode |-> <<"move_forward", "move_forward", "move_forward",
                        "collect_sample", "turn_right", "turn_right",
                        "move_forward", "move_forward", "move_forward">>]

\* Level 1-4: a skeleton on the way to the goal.
level_1_4 ==
    [id |-> "1-4", gridWidth |-> 5, gridHeight |-> 3, walls |-> {},
     startPosition |-> Pos(0, 1), startDirection |-> "right",
     goals |-> <<PlainGoal("defeat_enemies", "Defeat the skeleton"),
                 ReachPosition(4, 1, "Reach the goal")>>,
     collectibles |-> <<>>,
     enemies |-> <<EnemyDef("skeleton1", 2, 1, 20, 10)>>,
     maxExecutionSteps |-> 50,
     solutionCode |-> <<"move_forward", "attack", "move_forward", "move_forward">>]

\* Level 1-5: two skeletons, the first next to the start.
level_1_5 ==
    [id |-> "1-5", gridWidth |-> 5, gridHeight |-> 3, walls |-> {},
     startPosition |-> Pos(0, 1), startDirection |-> "right",
     goals |-> <<PlainGoal("defeat_enemies", "Defeat both skeletons"),
                 ReachPosition(4, 1, "Reach the goal")>>,
     collectibles |-> <<>>,
     enemies |-> <<EnemyDef("skeleton1", 1, 1, 20, 10),
                   EnemyDef("skeleton2", 3, 1, 20, 10)>>,
     maxExecutionSteps |-> 50,
     solutionCode |-> <<"attack", "move_forward", "attack", "move_forward">>]

\* Level 2-2: an ogre of 60 HP that hits for 15.
level_2_2 ==
    [id |-> "2-2", gridWidth |-> 4, gridHeight |-> 3, walls |-> {},
     startPosition |-> Pos(0, 1), startDirection |-> "right",
     goals |-> <<PlainGoal("defeat_enemies", "Defeat the ogre"),
                 ReachPosition(3, 1, "Reach the goal")>>,
     collectibles |-> <<>>,
     enemies |-> <<EnemyDef("ogre1", 2, 1, 60, 15)>>,
     maxExecutionSteps |-> 50,
     solutionCode |-> <<"move_forward", "attack", "attack", "attack", "move_forward">>]

\* A 3x3 level with a wall, a gem on the start cell and a hard-hitting guard
\* next to the start; its step limit is 2.
level_guard ==
    [id |-> "guard", gridWidth |-> 3, gridHeight |-> 3, walls |-> {Pos(0, 0)},
     startPosition |-> Pos(0, 1), startDirection |-> "right",
     goals |-> <<PlainGoal("collect_all", "Collect the gem")>>,
     collectibles |-> <<CollectibleDef("gem1", "gem", 0, 1)>>,
     enemies |-> <<EnemyDef("guard1", 1, 1, 40, 100)>>,
     maxExecutionSteps |-> 2,
     solutionCode |-> <<"collect_sample">>]

\* A 3x3 level in which one step forward puts the hero between two enemies;
\* the enemy south of that cell is defined before the one north of it.
level_pincer(damage) ==
    [id |-> "pincer", gridWidth |-> 3, gridHeight |-> 3, walls |-> {},
     startPosition |-> Pos(0, 1), startDirection |-> "right",
     goals |-> <<ReachPosition(2, 1, "Run the gauntlet")>>,
     collectibles |-> <<>>,
     enemies |-> <<EnemyDef("south1", 1, 2, 20, damage),
                   EnemyDef("north1", 1, 0, 20, damage)>>,
     maxExecutionSteps |-> 50,
     solutionCode |-> <<"move_forward", "move_forward">>]

\* A 3x3 level in which one step forward puts the hero between three enemies:
\* two share the cell east of it, and the one west of it is defined between them.
level_crowd ==
    [id |-> "crowd", gridWidth |-> 3, gridHeight |-> 3, walls |-> {},
     startPosition |-> Pos(1, 2), startDirection |-> "up",
     goals |-> <<PlainGoal("defeat_enemies", "Defeat them all")>>,
     collectibles |-> <<>>,
     enemies |-> <<EnemyDef("east1", 2, 1, 40, 20),
                   EnemyDef("west1", 0, 1, 40, 20),
                   EnemyDef("east2", 2, 1, 40, 20)>>,
     maxExecutionSteps |-> 50,
     solutionCode |-> <<>>]

\* A 2x2 open level that starts in its far corner.
level_corner ==
    [id |-> "corner", gridWidth |-> 2, gridHeight |-> 2, walls |-> {},
     startPosition |-> Pos(1, 1), startDirection |-> "down",
     goals |-> <<PlainGoal("survive", "Stay alive")>>,
     collectibles |-> <<>>, enemies |-> <<>>,
     maxExecutionSteps |-> 50,
     solutionCode |-> <<>>]

\* A 3x1 corridor that starts face to face with an enemy of 50 HP that hits
\* for 40.
level_duel ==
    [id |-> "duel", gridWidth |-> 3, gridHeight |-> 1, walls |-> {},
     startPosition |-> Pos(0, 0), startDirection |-> "right",
     goals |-> <<PlainGoal("defeat_enemies", "Win the duel"),
                 ReachPosition(2, 0, "Reach the far end")>>,
     collectibles |-> <<>>,
     enemies |-> <<EnemyDef("brute1", 1, 0, 50, 40)>>,
     maxExecutionSteps |-> 50,
     solutionCode |-> <<"attack", "attack", "attack", "move_forward", "move_forward">>]

\* A 3x3 level that starts between two enemies, one ahead (20 HP) and one
\* behind (30 HP), on a cell that holds two gems; a third gem, defined before
\* them, lies one cell south.
level_ambush ==
    [id |-> "ambush", gridWidth |-> 3, gridHeight |-> 3, walls |-> {Pos(1, 0)},
     startPosition |-> Pos(1, 1), startDirection |-> "right",
     goals |-> <<PlainGoal("collect_all", "Collect every gem"),
                 PlainGoal("defeat_enemies", "Defeat both enemies")>>,
     collectibles |-> <<CollectibleDef("far1", "gem", 1, 2),
                        CollectibleDef("ruby1", "gem", 1, 1),
                        CollectibleDef("amber1", "gem", 1, 1)>>,
     enemies |-> <<EnemyDef("east1", 2, 1, 20, 10),
                   EnemyDef("west1", 0, 1, 30, 10)>>,
     maxExecutionSteps |-> 50,
     solutionCode |-> <<"collect_sample", "collect_sample", "attack",
                        "turn_left", "turn_left", "attack", "attack",
                        "turn_left", "move_forward", "collect_sample">>]

\* A 2x1 level with a key and a gem on the start cell and a second key on
\* the other cell; its goals ask for gems with count 0, for two keys, and for
\* keys with no count given.
level_vault ==
    [id |-> "vault", gridWidth |-> 2, gridHeight |-> 1, walls |-> {},
     startPosition |-> Pos(0, 0), startDirection |-> "right",
     goals |-> <<CollectType("gem", <<0>>, "No gem needed"),
                 CollectType("key", <<2>>, "Collect two keys"),
                 CollectType("key", <<>>, "Collect a key")>>,
     collectibles |-> <<CollectibleDef("key1", "key", 0, 0),
                        CollectibleDef("gem1", "gem", 0, 0),
                        CollectibleDef("key2", "key", 1, 0)>>,
     enemies |-> <<>>,
     maxExecutionSteps |-> 50,
     solutionCode |-> <<"collect_sample", "collect_sample", "move_forward",
                        "collect_sample">>]

Levels == {level_1_1, level_1_2, level_1_3, level_1_4, level_1_5, level_2_1,
           level_2_2, level_guard, level_pincer(0), level_pincer(30),
           level_pincer(100), level_crowd, level_corner, level_duel, level_ambush,
           level_vault}

\* The levels of the catalog (levels.ts).
CatalogLevels == {level_1_1, level_1_2, level_1_3, level_1_4, level_1_5,
                  level_2_1, level_2_2}

\* All sequences over S of length at most n.
BoundedSeq(S, n) == UNION {[1..k -> S] : k \in 0..n}

\* Command lists longer than the bound: one step more than level 1-1 needs,
\* and a full turn to either side.
LongInputs ==
    {[i \in 1..4 |-> c] : c \in {"move_forward", "turn_left", "turn_right"}}

\* The command lists a run is started with: every list of at most MaxCommands
\* commands, and the level's own solution.
Inputs(l) == BoundedSeq(GameCommand \cup {UnknownCommand}, MaxCommands)
                 \cup {l.solutionCode} \cup LongInputs

----------------------------------------------------------------------------
\* Helpers of GameScene

\* directionFromType: the level's 'up'/'down'/'left'/'right' to a compass
\* direction, 'east' for anything else.
directionFromType(dir) ==
    CASE dir = "up" -> "north"
      [] dir = "down" -> "south"
      [] dir = "left" -> "west"
      [] dir = "right" -> "east"
      [] OTHER -> "east"

\* init(): the state resetGame goes back to.
initialState ==
    [heroPosition |-> level.startPosition,
     heroDirection |-> directionFromType(level.startDirection)]

deltas(dir) ==
    CASE dir = "north" -> Pos(0, -1)
      [] dir = "east" -> Pos(1, 0)
      [] dir = "south" -> Pos(0, 1)
      [] dir = "west" -> Pos(-1, 0)

\* getPositionInDirection without the factor steps: always one cell ahead.
getPositionInDirection_noSteps(pos, dir, steps) ==
    Pos(pos.x + deltas(dir).x, pos.y + deltas(dir).y)

getPositionInDirection(pos, dir, steps) ==
    Pos(pos.x + deltas(dir).x * steps, pos.y + deltas(dir).y * steps)

\* The table of turnHero with the two sides of 'south' exchanged.
turns_southMirrored(dir, side) ==
    CASE dir = "north" -> (IF side = "left" THEN "west" ELSE "east")
      [] dir = "east" -> (IF side = "left" THEN "north" ELSE "south")
      [] dir = "south" -> (IF side = "left" THEN "west" ELSE "east")
      [] dir = "west" -> (IF side = "left" THEN "south" ELSE "north")

turns(dir, side) ==
    CASE dir = "north" -> (IF side = "left" THEN "west" ELSE "east")
      [] dir = "east" -> (IF side = "left" THEN "north" ELSE "south")
      [] dir = "south" -> (IF side = "left" THEN "east" ELSE "west")
      [] dir = "west" -> (IF side = "left" THEN "south" ELSE "north")

\* createEnemy, for every enemy of the level in order (drawEnemies).
createEnemy(enemy) ==
    [id |-> enemy.id, health |-> enemy.health, maxHealth |-> enemy.health,
     damage |-> enemy.damage, position |-> enemy.position]

drawEnemies == [i \in 1..Len(level.enemies) |-> createEnemy(level.enemies[i])]

\* The indices (insertion order) of the enemies with health > 0 standing on pos.
LiveEnemiesAt(pos) ==
    LET Here(i) == enemies[i].position = pos /\ enemies[i].health > 0
    IN  SelectSeq([i \in 1..Len(enemies) |-> i], Here)

\* isValidPosition with the upper bounds off by one (> for >=).
isValidPosition_offByOne(pos) ==
    /\ ~(pos.x < 0 \/ pos.x > level.gridWidth)
    /\ ~(pos.y < 0 \/ pos.y > level.gridHeight)
    /\ pos \notin level.walls
    /\ LiveEnemiesAt(pos) = <<>>

\* isValidPosition without its wall test.
isValidPosition_noWall(pos) ==
    /\ ~(pos.x < 0 \/ pos.x >= level.gridWidth)
    /\ ~(pos.y < 0 \/ pos.y >= level.gridHeight)
    /\ LiveEnemiesAt(pos) = <<>>

\* isValidPosition without its loop over the enemies.
isValidPosition_noEnemy(pos) ==
    /\ ~(pos.x < 0 \/ pos.x >= level.gridWidth)
    /\ ~(pos.y < 0 \/ pos.y >= level.gridHeight)
    /\ pos \notin level.walls

isValidPosition(pos) ==
    /\ ~(pos.x < 0 \/ pos.x >= level.gridWidth)
    /\ ~(pos.y < 0 \/ pos.y >= level.gridHeight)
    /\ pos \notin level.walls
    /\ LiveEnemiesAt(pos) = <<>>

\* getEnemyAhead looking at the cell behind the hero (steps -1).
getEnemyAhead_behind ==
    LET behind == LiveEnemiesAt(getPositionInDirection(heroPosition, heroDirection, -1))
    IN  IF behind = <<>> THEN 0 ELSE Head(behind)

\* getEnemyAhead without its health test: the first enemy on the cell ahead,
\* dead or alive.
getEnemyAhead_anyHealth ==
    LET Here(i) == enemies[i].position
                     = getPositionInDirection(heroPosition, heroDirection, 1)
        ahead == SelectSeq([i \in 1..Len(enemies) |-> i], Here)
    IN  IF ahead = <<>> THEN 0 ELSE Head(ahead)

\* The first live enemy, in insertion order, on the cell ahead; 0 for null.
getEnemyAhead ==
    LET ahead == LiveEnemiesAt(getPositionInDirection(heroPosition, heroDirection, 1))
    IN  IF ahead = <<>> THEN 0 ELSE Head(ahead)

\* getAdjacentEnemies with the loops swapped: enemy by enemy in insertion
\* order, whatever the side.
getAdjacentEnemies_byDefinition ==
    LET Near(i) ==
            /\ enemies[i].health > 0
            /\ \E dir \in {"north", "east", "south", "west"} :
                  enemies[i].position = getPositionInDirection(heroPosition, dir, 1)
    IN  SelectSeq([i \in 1..Len(enemies) |-> i], Near)

\* getAdjacentEnemies with 'south' missing from its list of directions.
getAdjacentEnemies_noSouth ==
    LiveEnemiesAt(getPositionInDirection(heroPosition, "north", 1))
      \o LiveEnemiesAt(getPositionInDirection(heroPosition, "east", 1))
      \o LiveEnemiesAt(getPositionInDirection(heroPosition, "west", 1))

\* The live enemies next to the hero: side by side (north, east, south,
\* west), and in insertion order within a side.
getAdjacentEnemies ==
    LiveEnemiesAt(getPositionInDirection(heroPosition, "north", 1))
      \o LiveEnemiesAt(getPositionInDirection(heroPosition, "east", 1))
      \o LiveEnemiesAt(getPositionInDirection(heroPosition, "south", 1))
      \o LiveEnemiesAt(getPositionInDirection(heroPosition, "west", 1))

\* collectGem's find taking the last match instead of the first.
findCollectible_last ==
    LET Here(i) == /\ level.collectibles[i].position = heroPosition
                   /\ level.collectibles[i].id \notin collectedIds
        found == SelectSeq([i \in 1..Len(level.collectibles) |-> i], Here)
    IN  IF found = <<>> THEN 0 ELSE found[Len(found)]

\* collectGem's find without its position test.
findCollectible_anywhere ==
    LET Free(i) == level.collectibles[i].id \notin collectedIds
        found == SelectSeq([i \in 1..Len(level.collectibles) |-> i], Free)
    IN  IF found = <<>> THEN 0 ELSE Head(found)

\* collectGem's find: the first uncollected collectible on the hero's cell,
\* 0 if there is none.
findCollectible ==
    LET Here(i) == /\ level.collectibles[i].position = heroPosition
                   /\ level.collectibles[i].id \notin collectedIds
        found == SelectSeq([i \in 1..Len(level.collectibles) |-> i], Here)
    IN  IF found = <<>> THEN 0 ELSE Head(found)

\* The check at the head of the command loop without its health test.
heroIsDown_flagOnly == heroDead

\* The check at the head of the command loop.
heroIsDown == heroDead \/ heroHealth <= 0

\* checkWinCondition's goal test with reach_position met at or beyond the
\* target's column.
goalMet_reachedOrPassed(goal) ==
    CASE goal.type = "reach_position" ->
            goal.target # <<>> /\ heroPosition.x >= goal.target[1].x
                               /\ heroPosition.y = goal.target[1].y
      [] goal.type = "collect_all" ->
            Cardinality(collectedIds) = Len(level.collectibles)
      [] goal.type = "collect_type" ->
            LET collected == {i \in 1..Len(level.collectibles) :
                                /\ level.collectibles[i].type = goal.collectibleType
                                /\ level.collectibles[i].id \in collectedIds}
                count == IF goal.count = <<>> \/ goal.count[1] = 0
                         THEN 1 ELSE goal.count[1]
            IN  Cardinality(collected) >= count
      [] goal.type = "defeat_enemies" ->
            Cardinality(defeatedEnemies) = Len(level.enemies)
      [] OTHER -> FALSE

\* checkWinCondition's goal test with defeat_enemies met by any defeat.
goalMet_anyDefeated(goal) ==
    CASE goal.type = "reach_position" ->
            goal.target # <<>> /\ heroPosition = goal.target[1]
      [] goal.type = "collect_all" ->
            Cardinality(collectedIds) = Len(level.collectibles)
      [] goal.type = "collect_type" ->
            LET collected == {i \in 1..Len(level.collectibles) :
                                /\ level.collectibles[i].type = goal.collectibleType
                                /\ level.collectibles[i].id \in collectedIds}
                count == IF goal.count = <<>> \/ goal.count[1] = 0
                         THEN 1 ELSE goal.count[1]
            IN  Cardinality(collected) >= count
      [] goal.type = "defeat_enemies" ->
            Cardinality(defeatedEnemies) >= 1
      [] OTHER -> FALSE

\* checkWinCondition: one goal.
goalMet(goal) ==
    CASE goal.type = "reach_position" ->
            goal.target # <<>> /\ heroPosition = goal.target[1]
      [] goal.type = "collect_all" ->
            Cardinality(collectedIds) = Len(level.collectibles)
      [] goal.type = "collect_type" ->
            LET collected == {i \in 1..Len(level.collectibles) :
                                /\ level.collectibles[i].type = goal.collectibleType
                                /\ level.collectibles[i].id \in collectedIds}
                count == IF goal.count = <<>> \/ goal.count[1] = 0
                         THEN 1 ELSE goal.count[1]
            IN  Cardinality(collected) >= count
      [] goal.type = "defeat_enemies" ->
            Cardinality(defeatedEnemies) = Len(level.enemies)
      [] OTHER -> FALSE

\* checkWinCondition leaving its loop at the first goal that is not met.
checkWinCondition_shortCircuit ==
    LET all == [i \in 1..Len(level.goals) |->
                    [met |-> goalMet(level.goals[i]),
                     description |-> level.goals[i].description]]
        failed == {i \in 1..Len(level.goals) : ~all[i].met}
        firstFailed == CHOOSE i \in failed : \A j \in failed : i <= j
    IN  IF failed = {}
        THEN [success |-> TRUE, message |-> CompleteMessage]
        ELSE [success |-> FALSE,
              message |-> IncompleteMessage(SubSeq(all, 1, firstFailed))]

\* checkWinCondition: the verdict handed to onComplete.
checkWinCondition ==
    LET lines == [i \in 1..Len(level.goals) |->
                    [met |-> goalMet(level.goals[i]),
                     description |-> level.goals[i].description]]
        allGoalsMet == \A i \in 1..Len(level.goals) : lines[i].met
    IN  IF allGoalsMet
        THEN [success |-> TRUE, message |-> CompleteMessage]
        ELSE [success |-> FALSE, message |-> IncompleteMessage(lines)]

----------------------------------------------------------------------------
\* Values of the runner and of the storage

\* The interpreter's globals once ROVER_API has run in it: no command
\* recorded, and the combat state at its defaults.
ROVER_API ==
    [defined |-> TRUE, commands |-> <<>>, hero_health |-> 100,
     enemy_ahead |-> FALSE]

\* The globals of an interpreter in which ROVER_API has not run.
BareInterpreter ==
    [defined |-> FALSE, commands |-> <<>>, hero_health |-> 0,
     enemy_ahead |-> FALSE]

\* RunnerExecutionResult.
RunnerResult(success, cmds, error) ==
    [success |-> success, commands |-> cmds, error |-> error]

\* The value of result before the first call of runCode has returned.
NoResult == RunnerResult(FALSE, <<>>, "")

\* The item STORAGE_KEYS.PROGRESS: absent, the JSON text of a progress
\* record, or a text that JSON.parse rejects.
NoItem == [kind |-> "none", completedLevels |-> <<>>, totalStars |-> 0]

----------------------------------------------------------------------------
\* The state after construction and init(): the scene shows the level and no
\* run has been started; the runner has been constructed, nothing is stored.

Init ==
    /\ level \in Levels
    /\ heroPosition = initialState.heroPosition
    /\ heroDirection = initialState.heroDirection
    /\ heroHealth = heroMaxHealth
    /\ heroDead = FALSE
    /\ isExecuting = FALSE
    /\ enemies = drawEnemies
    /\ collectedIds = {}
    /\ defeatedEnemies = {}
    /\ commands = <<>>
    /\ ci = 0
    /\ pc = "idle"
    /\ adjacentEnemies = <<>>
    /\ ai = 0
    /\ enemyAhead = 0
    /\ verdicts = <<>>
    /\ passLog = <<>>
    /\ hitBy = {}
    /\ healthAtMove = heroMaxHealth
    /\ atCommand = Snapshot
    /\ hits = [i \in 1..Len(level.enemies) |-> 0]
    /\ afterRun = FALSE
    /\ abandoned = FALSE
    /\ overlap = "none"
    /\ initialized = FALSE
    /\ pyodide = "null"
    /\ py = BareInterpreter
    /\ ipc = "none"
    /\ rpc = "new"
    /\ code = <<>>
    /\ result = NoResult
    /\ leftover = <<>>
    /\ sensed = <<>>
    /\ reloaded = FALSE
    /\ storageAvailable = TRUE
    /\ stored = NoItem
    /\ defaultCompleted = <<>>

\* resetGame without its reset of the combat state of the hero.
resetGame_keepsHealth ==
    /\ heroPosition' = initialState.heroPosition
    /\ heroDirection' = initialState.heroDirection
    /\ collectedIds' = {}
    /\ defeatedEnemies' = {}
    /\ enemies' = drawEnemies
    /\ UNCHANGED <<heroHealth, heroDead>>

\* resetGame: back to the level's initial state.
resetGame ==
    /\ heroPosition' = initialState.heroPosition
    /\ heroDirection' = initialState.heroDirection
    /\ collectedIds' = {}
    /\ heroHealth' = heroMaxHealth
    /\ heroDead' = FALSE
    /\ defeatedEnemies' = {}
    /\ enemies' = drawEnemies

\* executeCommands on entry: the isExecuting guard and resetGame.  The command
\* list is an input of the run; it is drawn where the loop first reads it.
ExecuteCommands ==
    /\ UNCHANGED outsideScene
    /\ pc = "idle"
    /\ ~isExecuting
    /\ resetGame
    /\ isExecuting' = TRUE
    /\ commands' = <<>>
    /\ ci' = 0
    /\ pc' = "start"
    /\ verdicts' = <<>>
    /\ passLog' = <<>>
    /\ hitBy' = {}
    /\ healthAtMove' = heroMaxHealth
    /\ hits' = [i \in 1..Len(level.enemies) |-> 0]
    /\ adjacentEnemies' = <<>>
    /\ ai' = 0
    /\ enemyAhead' = 0
    /\ afterRun' = (ci > 0)
    /\ abandoned' = FALSE
    /\ overlap' = "none"
    /\ UNCHANGED <<level, atCommand>>

\* executeCommands(commands): the loop starts over the list it was given.
BeginLoop ==
    /\ UNCHANGED outsideScene
    /\ pc = "start"
    /\ \E cmds \in Inputs(level) : commands' = cmds
    /\ ci' = 1
    /\ pc' = "loop"
    /\ atCommand' = Snapshot
    /\ afterRun' = FALSE
    /\ UNCHANGED <<level, world, heroDead, isExecuting, adjacentEnemies, ai,
                   enemyAhead, verdicts, passLog, hitBy, healthAtMove, hits,
                   abandoned, overlap>>

\* The loop is at command ci and goes on to execute it.
AtCommand(names) ==
    /\ pc = "loop"
    /\ ci <= Len(commands)
    /\ ~heroIsDown
    /\ commands[ci] \in names

\* The loop finds the hero down before a command: executeCommands returns.
HaltOnDeath ==
    /\ UNCHANGED outsideScene
    /\ pc = "loop"
    /\ ci <= Len(commands)
    /\ heroIsDown
    /\ isExecuting' = FALSE
    /\ pc' = "idle"
    /\ UNCHANGED <<level, world, heroDead, commands, ci, adjacentEnemies, ai,
                   enemyAhead, verdicts, history>>

\* moveHero(steps): a rejected move returns false; a legal one moves the hero
\* and goes on to checkAdjacentEnemies.
MoveHero ==
    /\ UNCHANGED outsideScene
    /\ AtCommand({"move_forward", "move_backward"})
    /\ LET steps == IF commands[ci] = "move_forward" THEN 1 ELSE -1
           newPos == getPositionInDirection(heroPosition, heroDirection, steps)
       IN  IF ~isValidPosition(newPos)
           THEN /\ pc' = "delay"
                /\ UNCHANGED <<heroPosition, hitBy, healthAtMove>>
           ELSE /\ heroPosition' = newPos
                /\ pc' = "checkAdjacent"
                /\ hitBy' = {}
                /\ healthAtMove' = heroHealth
    /\ UNCHANGED <<level, heroDirection, heroHealth, heroDead, isExecuting, enemies,
                   collectedIds, defeatedEnemies, commands, ci, adjacentEnemies,
                   ai, enemyAhead, verdicts, passLog, atCommand, hits, calls>>

\* checkAdjacentEnemies: the head of the while loop, which starts a pass over
\* the enemies that are adjacent now, or returns.
CheckAdjacentEnemies ==
    /\ UNCHANGED outsideScene
    /\ pc = "checkAdjacent"
    /\ IF heroHealth > 0 /\ ~heroDead /\ getAdjacentEnemies # <<>>
       THEN /\ adjacentEnemies' = getAdjacentEnemies
            /\ ai' = 1
            /\ passLog' = <<>>
            /\ pc' = "pass"
       ELSE /\ pc' = "moved"
            /\ UNCHANGED <<adjacentEnemies, ai, passLog>>
    /\ UNCHANGED <<level, world, heroDead, isExecuting, commands, ci, enemyAhead,
                   verdicts, hitBy, healthAtMove, atCommand, hits, calls>>

\* performEnemyAttack: the next enemy of the pass hits the hero.
PerformEnemyAttack ==
    /\ UNCHANGED outsideScene
    /\ pc = "pass"
    /\ ai <= Len(adjacentEnemies)
    /\ heroHealth > 0
    /\ LET enemyData == enemies[adjacentEnemies[ai]]
       IN  /\ heroHealth' = heroHealth - enemyData.damage
           /\ passLog' = Append(passLog, enemyData.id)
           /\ hitBy' = hitBy \cup {enemyData.id}
           /\ IF heroHealth' <= 0
              THEN pc' = "dying" /\ ai' = ai
              ELSE pc' = "pass" /\ ai' = ai + 1
    /\ UNCHANGED <<level, heroPosition, heroDirection, heroDead, isExecuting, enemies,
                   collectedIds, defeatedEnemies, commands, ci, adjacentEnemies,
                   enemyAhead, verdicts, healthAtMove, atCommand, hits, calls>>

\* handleHeroDeath, before its animation.
HandleHeroDeath ==
    /\ UNCHANGED outsideScene
    /\ pc = "dying"
    /\ heroDead' = TRUE
    /\ isExecuting' = FALSE
    /\ pc' = "fallen"
    /\ UNCHANGED <<level, world, commands, ci, adjacentEnemies, ai, enemyAhead,
                   verdicts, history>>

\* handleHeroDeath, after its animation: the defeat verdict.
ReportDeath ==
    /\ UNCHANGED outsideScene
    /\ pc = "fallen"
    /\ verdicts' = Append(verdicts, [success |-> FALSE, message |-> DefeatMessage])
    /\ ai' = ai + 1
    /\ pc' = "pass"
    /\ UNCHANGED <<level, world, heroDead, isExecuting, commands, ci,
                   adjacentEnemies, enemyAhead, history>>

\* The end of a pass without the while loop around it: one pass only.
PassEnd_once ==
    /\ UNCHANGED outsideScene
    /\ pc = "pass"
    /\ (ai > Len(adjacentEnemies) \/ heroHealth <= 0)
    /\ pc' = "moved"
    /\ UNCHANGED <<level, world, heroDead, isExecuting, commands, ci,
                   adjacentEnemies, ai, enemyAhead, verdicts, history>>

\* checkAdjacentEnemies: the pass is over (every enemy had its turn, or the
\* hero is down); the while loop goes round again unless the hero is down.
PassEnd ==
    /\ UNCHANGED outsideScene
    /\ pc = "pass"
    /\ (ai > Len(adjacentEnemies) \/ heroHealth <= 0)
    /\ pc' = IF heroHealth <= 0 THEN "moved" ELSE "checkAdjacent"
    /\ UNCHANGED <<level, world, heroDead, isExecuting, commands, ci,
                   adjacentEnemies, ai, enemyAhead, verdicts, history>>

\* turnHero(direction).
TurnHero ==
    /\ UNCHANGED outsideScene
    /\ AtCommand({"turn_left", "turn_right"})
    /\ heroDirection' = turns(heroDirection,
                              IF commands[ci] = "turn_left" THEN "left" ELSE "right")
    /\ pc' = "delay"
    /\ UNCHANGED <<level, heroPosition, heroHealth, heroDead, isExecuting, enemies,
                   collectedIds, defeatedEnemies, commands, ci, adjacentEnemies,
                   ai, enemyAhead, verdicts, history>>

\* collectGem.
CollectGem ==
    /\ UNCHANGED outsideScene
    /\ AtCommand({"collect_sample"})
    /\ collectedIds' = IF findCollectible = 0
                       THEN collectedIds
                       ELSE collectedIds \cup {level.collectibles[findCollectible].id}
    /\ pc' = "delay"
    /\ UNCHANGED <<level, heroPosition, heroDirection, heroHealth, heroDead,
                   isExecuting, enemies, defeatedEnemies, commands, ci,
                   adjacentEnemies, ai, enemyAhead, verdicts, history>>

\* attackEnemy: the target is looked up on entry, before the swing.
AttackEnemy ==
    /\ UNCHANGED outsideScene
    /\ AtCommand({"attack"})
    /\ enemyAhead' = getEnemyAhead
    /\ pc' = "swing"
    /\ UNCHANGED <<level, world, heroDead, isExecuting, commands, ci,
                   adjacentEnemies, ai, verdicts, history>>

\* attackEnemy after the swing: a miss returns, a hit takes attackDamage off
\* the target.
AttackHit ==
    /\ UNCHANGED outsideScene
    /\ pc = "swing"
    /\ IF enemyAhead = 0
       THEN pc' = "delay" /\ UNCHANGED <<enemies, hits>>
       ELSE /\ enemies' = [enemies EXCEPT
                             ![enemyAhead].health = @ - attackDamage]
            /\ hits' = [hits EXCEPT ![enemyAhead] = @ + 1]
            /\ pc' = "struck"
    /\ UNCHANGED <<level, heroPosition, heroDirection, heroHealth, heroDead,
                   isExecuting, collectedIds, defeatedEnemies, commands, ci,
                   adjacentEnemies, ai, enemyAhead, verdicts, passLog, hitBy,
                   healthAtMove, atCommand, calls>>

\* The defeat check of attackEnemy with < for <=.
AttackResolve_strict ==
    /\ UNCHANGED outsideScene
    /\ pc = "struck"
    /\ IF enemies[enemyAhead].health < 0
       THEN /\ defeatedEnemies' = defeatedEnemies \cup {enemies[enemyAhead].id}
            /\ pc' = "delay"
       ELSE /\ pc' = "counter"
            /\ UNCHANGED defeatedEnemies
    /\ UNCHANGED <<level, heroPosition, heroDirection, heroHealth, heroDead,
                   isExecuting, enemies, collectedIds, commands, ci,
                   adjacentEnemies, ai, enemyAhead, verdicts, history>>

\* attackEnemy: the target is defeated, or it is about to strike back.
AttackResolve ==
    /\ UNCHANGED outsideScene
    /\ pc = "struck"
    /\ IF enemies[enemyAhead].health <= 0
       THEN /\ defeatedEnemies' = defeatedEnemies \cup {enemies[enemyAhead].id}
            /\ pc' = "delay"
       ELSE /\ pc' = "counter"
            /\ UNCHANGED defeatedEnemies
    /\ UNCHANGED <<level, heroPosition, heroDirection, heroHealth, heroDead,
                   isExecuting, enemies, collectedIds, commands, ci,
                   adjacentEnemies, ai, enemyAhead, verdicts, history>>

\* attackEnemy with the counterattack lost after its delay.
CounterAttack_lost ==
    /\ UNCHANGED outsideScene
    /\ pc = "counter"
    /\ pc' = "delay"
    /\ UNCHANGED <<level, heroPosition, heroDirection, heroHealth, heroDead,
                   isExecuting, enemies, collectedIds, defeatedEnemies, commands,
                   ci, adjacentEnemies, ai, enemyAhead, verdicts, history>>

\* attackEnemy: the counterattack of a target that survived.
CounterAttack ==
    /\ UNCHANGED outsideScene
    /\ pc = "counter"
    /\ heroHealth' = heroHealth - enemies[enemyAhead].damage
    /\ pc' = "delay"
    /\ UNCHANGED <<level, heroPosition, heroDirection, heroDead, isExecuting,
                   enemies, collectedIds, defeatedEnemies, commands, ci,
                   adjacentEnemies, ai, enemyAhead, verdicts, history>>

\* executeCommand treating 'collect' like 'collect_sample'.
IgnoreCommand_collects ==
    /\ UNCHANGED outsideScene
    /\ AtCommand({UnknownCommand})
    /\ collectedIds' = IF findCollectible = 0
                       THEN collectedIds
                       ELSE collectedIds \cup {level.collectibles[findCollectible].id}
    /\ pc' = "delay"
    /\ UNCHANGED <<level, heroPosition, heroDirection, heroHealth, heroDead,
                   isExecuting, enemies, defeatedEnemies, commands, ci,
                   adjacentEnemies, ai, enemyAhead, verdicts, history>>

\* executeCommand: a command with no case in the switch.
IgnoreCommand ==
    /\ UNCHANGED outsideScene
    /\ AtCommand({UnknownCommand})
    /\ pc' = "delay"
    /\ UNCHANGED <<level, world, heroDead, isExecuting, commands, ci,
                   adjacentEnemies, ai, enemyAhead, verdicts, history>>

\* The delay after a command; the loop moves on to the next one.
NextCommand ==
    /\ UNCHANGED outsideScene
    /\ pc \in {"delay", "moved"}
    /\ ci' = ci + 1
    /\ pc' = "loop"
    /\ atCommand' = Snapshot
    /\ UNCHANGED <<level, world, heroDead, isExecuting, commands,
                   adjacentEnemies, ai, enemyAhead, verdicts, passLog, hitBy,
                   healthAtMove, hits, calls>>

\* The loop has run out of commands and heroDead is not set: the goals are
\* evaluated and the verdict is reported.
FinishRun ==
    /\ UNCHANGED outsideScene
    /\ pc = "loop"
    /\ ci > Len(commands)
    /\ ~heroDead
    /\ isExecuting' = FALSE
    /\ verdicts' = Append(verdicts, checkWinCondition)
    /\ pc' = "idle"
    /\ UNCHANGED <<level, world, heroDead, commands, ci, adjacentEnemies, ai,
                   enemyAhead, history>>

\* The loop has run out of commands and heroDead is set: nothing more is done.
FinishDead ==
    /\ UNCHANGED outsideScene
    /\ pc = "loop"
    /\ ci > Len(commands)
    /\ heroDead
    /\ pc' = "idle"
    /\ UNCHANGED <<level, world, heroDead, isExecuting, commands, ci,
                   adjacentEnemies, ai, enemyAhead, verdicts, history>>

Next ==
    \/ ExecuteCommands
    \/ BeginLoop
    \/ HaltOnDeath
    \/ MoveHero
    \/ CheckAdjacentEnemies
    \/ PerformEnemyAttack
    \/ HandleHeroDeath
    \/ ReportDeath
    \/ PassEnd
    \/ TurnHero
    \/ CollectGem
    \/ AttackEnemy
    \/ AttackHit
    \/ AttackResolve
    \/ CounterAttack
    \/ IgnoreCommand
    \/ NextCommand
    \/ FinishRun
    \/ FinishDead

Spec == Init /\ [][Next]_vars

----------------------------------------------------------------------------
\* The scene with callers that do not wait for executeCommands to return.

\* resetScene: scene.restart runs init() and create() again.  The restart
\* is taken where the current call, if any, waits in the delay between two
\* commands: a timer that the restart does not cancel, so the call goes on.
\* One restart per call is followed.
ResetScene ==
    /\ UNCHANGED outsideScene
    /\ pc \in {"idle", "delay", "moved"}
    /\ ~abandoned
    /\ heroPosition' = level.startPosition
    /\ heroDirection' = directionFromType(level.startDirection)
    /\ collectedIds' = {}
    /\ isExecuting' = FALSE
    /\ heroHealth' = heroMaxHealth
    /\ heroDead' = FALSE
    /\ enemies' = drawEnemies
    /\ defeatedEnemies' = {}
    /\ abandoned' = (pc # "idle")
    /\ UNCHANGED <<level, commands, ci, pc, adjacentEnemies, ai, enemyAhead,
                   verdicts, passLog, hitBy, healthAtMove, atCommand, hits,
                   afterRun, overlap>>

\* executeCommands([]) called while an earlier call has not returned.  With
\* isExecuting set it returns at once; otherwise it runs to its end without
\* an await: resetGame, no command, checkWinCondition on the reset world.
\* One such call per earlier call is followed.
OverlappingCall ==
    /\ UNCHANGED outsideScene
    /\ pc \notin {"idle", "start"}
    /\ overlap = "none"
    /\ UNCHANGED <<level, commands, ci, pc, adjacentEnemies, ai, enemyAhead,
                   passLog, hitBy, healthAtMove, atCommand, hits, afterRun,
                   abandoned>>
    /\ IF isExecuting
       THEN /\ overlap' = "rejected"
            /\ UNCHANGED <<world, heroDead, isExecuting, verdicts>>
       ELSE /\ resetGame
            /\ isExecuting' = FALSE
            /\ verdicts' = Append(verdicts, checkWinCondition')
            /\ overlap' = "admitted"

\* The levels of the scene whose callers do not wait.
SceneLevels == {level_2_1, level_ambush}

SceneInit == Init /\ level \in SceneLevels

SceneNext == Next \/ ResetScene \/ OverlappingCall

SceneSpec == SceneInit /\ [][SceneNext]_vars

\* The scene with its scheduling: a call of executeCommands that has not
\* returned is always waiting for a timer, a tween or a resolved promise, and
\* the event loop runs each of them when it is due.  When the next call is
\* made is up to the caller.
RunContinues == pc # "idle" /\ Next

LiveSpec == Init /\ [][Next]_vars /\ WF_vars(RunContinues)

----------------------------------------------------------------------------
\* PythonRunner

\* The statements of the scripts: calls of two of the command functions,
\* calls of the two sensors, and the use of a name that is not defined,
\* which raises NameError.
Statement == {"move_forward", "attack", "get_enemy_ahead", "get_health",
              "undefined_name"}

\* The scripts handed to runCode.
Scripts == BoundedSeq(Statement, MaxCommands)

\* The message of runCode's guard.
LoadingMessage ==
    "The Python engine is still loading. Please wait a moment and try again."

\* formatError, by the kind of the error.
formatError(error) ==
    CASE error = "SyntaxError" ->
            "There's a syntax error in your code. Double-check your spelling and punctuation!"
      [] error = "NameError" ->
            "You're using something that hasn't been defined. Check your spelling!"
      [] error = "TypeError" ->
            "There's a type mismatch. Make sure you're using the right kind of values."
      [] OTHER -> "Something went wrong: " \o error

\* One statement of a script, run on st = [py, sensed, raised].
ExecuteStatement(st, stmt) ==
    IF ~st.py.defined \/ stmt = "undefined_name"
    THEN [st EXCEPT !.raised = "NameError"]
    ELSE IF stmt \in {"get_enemy_ahead", "get_health"}
         THEN [st EXCEPT !.sensed =
                  Append(@, [fn |-> stmt,
                             enemy_ahead |-> st.py.enemy_ahead,
                             hero_health |-> st.py.hero_health,
                             issued |-> st.py.commands])]
         ELSE [st EXCEPT !.py.commands = Append(@, stmt)]

\* runPythonAsync(code): the statements in order, up to the first that raises.
RECURSIVE ExecuteScript(_, _)
ExecuteScript(st, stmts) ==
    IF stmts = <<>> \/ st.raised # "" THEN st
    ELSE ExecuteScript(ExecuteStatement(st, Head(stmts)), Tail(stmts))

\* initialize(): the guard, and the start of the download.
InitializeBegin ==
    /\ ipc = "none"
    /\ ~initialized
    /\ ipc' = "loading"
    /\ UNCHANGED <<scene, storage, reloaded, initialized, pyodide, py, rpc, code,
                   result, leftover, sensed>>

\* initialize(): loadPyodide has given an interpreter, or the download has
\* failed and initialize throws.
InitializeLoaded ==
    /\ ipc = "loading"
    /\ \/ /\ pyodide' = "interpreter"
          /\ py' = BareInterpreter
          /\ ipc' = "injecting"
          /\ reloaded' = (reloaded \/ rpc \in {"script", "get"})
       \/ ipc' = "none" /\ UNCHANGED <<pyodide, py, reloaded>>
    /\ UNCHANGED <<scene, storage, initialized, rpc, code, result, leftover,
                   sensed>>

\* initialize(): this.pyodide.runPythonAsync(ROVER_API); with this.pyodide set
\* to null in the meantime the call is a TypeError and initialize throws.
InitializeInject ==
    /\ ipc = "injecting"
    /\ IF pyodide = "null"
       THEN ipc' = "none" /\ UNCHANGED py
       ELSE ipc' = "injected" /\ py' = ROVER_API
    /\ UNCHANGED <<scene, storage, reloaded, initialized, pyodide, rpc, code,
                   result, leftover, sensed>>

\* initialize(): after the injection.
InitializeDone ==
    /\ ipc = "injected"
    /\ initialized' = TRUE
    /\ ipc' = "none"
    /\ UNCHANGED <<scene, storage, reloaded, pyodide, py, rpc, code, result,
                   leftover, sensed>>

\* destroy().
Destroy ==
    /\ initialized \/ pyodide # "null"
    /\ pyodide' = "null"
    /\ initialized' = FALSE
    /\ UNCHANGED <<scene, storage, reloaded, py, ipc, rpc, code, result, leftover,
                   sensed>>

\* No call of runCode is in progress.
Callable == rpc \in {"new", "refused", "done"}

\* runCode without its _reset_commands().
RunCode_noReset ==
    /\ Callable
    /\ code' = <<>>
    /\ leftover' = py.commands
    /\ sensed' = <<>>
    /\ reloaded' = FALSE
    /\ IF ~initialized \/ pyodide = "null"
       THEN /\ result' = RunnerResult(FALSE, <<>>, LoadingMessage)
            /\ rpc' = "refused"
       ELSE /\ result' = NoResult
            /\ rpc' = "script"
    /\ UNCHANGED <<scene, storage, initialized, pyodide, py, ipc>>

\* runCode(code): the guard, and _reset_commands().  The script is an input
\* of the call; it is drawn where runCode first uses it.
RunCode ==
    /\ Callable
    /\ code' = <<>>
    /\ leftover' = py.commands
    /\ sensed' = <<>>
    /\ reloaded' = FALSE
    /\ IF ~initialized \/ pyodide = "null"
       THEN /\ result' = RunnerResult(FALSE, <<>>, LoadingMessage)
            /\ rpc' = "refused"
            /\ UNCHANGED py
       ELSE /\ py' = IF py.defined THEN [py EXCEPT !.commands = <<>>] ELSE py
            /\ result' = NoResult
            /\ rpc' = "script"
    /\ UNCHANGED <<scene, storage, initialized, pyodide, ipc>>

\* runCode without its try: an error of the script leaves runCode as a
\* rejected promise.
RunScript_uncaught ==
    /\ rpc = "script"
    /\ \E script \in Scripts :
          LET run == ExecuteScript([py |-> py, sensed |-> <<>>, raised |-> ""],
                                   script)
          IN  /\ code' = script
              /\ IF pyodide = "null" \/ run.raised # ""
                 THEN /\ rpc' = "threw"
                      /\ py' = (IF pyodide = "null" THEN py ELSE run.py)
                      /\ UNCHANGED <<result, sensed>>
                 ELSE /\ py' = run.py
                      /\ sensed' = run.sensed
                      /\ rpc' = "get"
                      /\ UNCHANGED result
    /\ UNCHANGED <<scene, storage, reloaded, initialized, pyodide, ipc, leftover>>

\* runCode: setStdout and runPythonAsync(code).  With this.pyodide null the
\* call is a TypeError; that and every error of the script end in the catch.
RunScript ==
    /\ rpc = "script"
    /\ \E script \in Scripts :
          LET run == ExecuteScript([py |-> py, sensed |-> <<>>, raised |-> ""],
                                   script)
          IN  /\ code' = script
              /\ IF pyodide = "null"
                 THEN /\ result' = RunnerResult(FALSE, <<>>, formatError("TypeError"))
                      /\ rpc' = "done"
                      /\ UNCHANGED <<py, sensed>>
                 ELSE /\ py' = run.py
                      /\ sensed' = run.sensed
                      /\ IF run.raised # ""
                         THEN /\ result' = RunnerResult(FALSE, <<>>,
                                                        formatError(run.raised))
                              /\ rpc' = "done"
                         ELSE /\ rpc' = "get"
                              /\ UNCHANGED result
    /\ UNCHANGED <<scene, storage, reloaded, initialized, pyodide, ipc, leftover>>

\* runCode: _get_commands() and the result.  The call goes to the
\* interpreter this.pyodide holds now; one without ROVER_API raises NameError.
GetCommands ==
    /\ rpc = "get"
    /\ result' = IF pyodide = "null"
                 THEN RunnerResult(FALSE, <<>>, formatError("TypeError"))
                 ELSE IF ~py.defined
                      THEN RunnerResult(FALSE, <<>>, formatError("NameError"))
                      ELSE RunnerResult(TRUE, py.commands, "")
    /\ rpc' = "done"
    /\ UNCHANGED <<scene, storage, reloaded, initialized, pyodide, py, ipc, code,
                   leftover, sensed>>

\* The level the scripts are written for.
RunnerLevels == {level_2_1}

RunnerInit == Init /\ level \in RunnerLevels

RunnerNext ==
    \/ InitializeBegin
    \/ InitializeLoaded
    \/ InitializeInject
    \/ InitializeDone
    \/ Destroy
    \/ RunCode
    \/ RunScript
    \/ GetCommands

RunnerSpec == RunnerInit /\ [][RunnerNext]_vars

----------------------------------------------------------------------------
\* LocalStorage and the level page's handleLevelComplete

\* A text in the item that JSON.parse rejects.
GarbageItem == [kind |-> "garbage", completedLevels |-> <<>>, totalStars |-> 0]

\* JSON.stringify of a progress record, as the item holds it.
JsonItem(completedLevels, totalStars) ==
    [kind |-> "json", completedLevels |-> completedLevels,
     totalStars |-> totalStars]

\* { ...DEFAULT_PROGRESS }: a new record whose completedLevels is the array
\* of DEFAULT_PROGRESS itself (the spread copies the reference).
DefaultCopy ==
    [completedLevels |-> defaultCompleted, totalStars |-> 0, shared |-> TRUE]

\* getProgress(): the record it returns; shared tells whether its
\* completedLevels is the array of DEFAULT_PROGRESS.
getProgress ==
    IF ~storageAvailable THEN DefaultCopy
    ELSE IF stored.kind = "none" THEN DefaultCopy
    ELSE IF stored.kind = "garbage" THEN DefaultCopy
    ELSE [completedLevels |-> stored.completedLevels,
          totalStars |-> stored.totalStars, shared |-> FALSE]

\* The levels a run can end in success on.
CompletableLevels == {l \in CatalogLevels : l.enemies = <<>>}

\* handleLevelComplete(true, message) on the page of a level: the level is
\* pushed onto the completedLevels of the record getProgress returned, three
\* stars are added to that record, and the record is saved.
HandleLevelComplete ==
    /\ \E l \in CompletableLevels :
          LET progress == getProgress
              known == \E i \in 1..Len(progress.completedLevels) :
                          progress.completedLevels[i].levelId = l.id
              pushed == Append(progress.completedLevels,
                               [levelId |-> l.id, starsEarned |-> 3])
          IN  IF known
              THEN UNCHANGED <<stored, defaultCompleted>>
              ELSE /\ defaultCompleted' =
                        IF progress.shared THEN pushed ELSE defaultCompleted
                   /\ stored' =
                        IF storageAvailable
                        THEN JsonItem(pushed, progress.totalStars + 3)
                        ELSE stored
    /\ UNCHANGED <<scene, runner, storageAvailable>>

\* clearAllData().
ClearAllData ==
    /\ storageAvailable
    /\ stored.kind # "none"
    /\ stored' = NoItem
    /\ UNCHANGED <<scene, runner, storageAvailable, defaultCompleted>>

\* The browser starts or stops refusing writes to localStorage.
StorageChanges ==
    /\ storageAvailable' = ~storageAvailable
    /\ UNCHANGED <<scene, runner, stored, defaultCompleted>>

\* Something else has written a text into the item that is not JSON.
ItemCorrupted ==
    /\ storageAvailable
    /\ stored.kind # "garbage"
    /\ stored' = GarbageItem
    /\ UNCHANGED <<scene, runner, storageAvailable, defaultCompleted>>

\* The page is loaded again: the module storage.ts is evaluated anew.
Reload ==
    /\ defaultCompleted # <<>>
    /\ defaultCompleted' = <<>>
    /\ UNCHANGED <<scene, runner, storageAvailable, stored>>

StorageInit == Init /\ level = level_1_1

StorageNext ==
    \/ StorageChanges
    \/ HandleLevelComplete
    \/ ClearAllData
    \/ ItemCorrupted
    \/ Reload

StorageSpec == StorageInit /\ [][StorageNext]_vars

----------------------------------------------------------------------------
\* Vocabulary of the properties

\* executeCommands has returned from a run.
RunOver == pc = "idle" /\ ci > 0

Abs(n) == IF n < 0 THEN -n ELSE n

\* The enemies (indices) with health > 0 on a cell orthogonally next to the hero.
AdjacentLive ==
    {i \in 1..Len(enemies) :
        /\ enemies[i].health > 0
        /\ Abs(enemies[i].position.x - heroPosition.x)
             + Abs(enemies[i].position.y - heroPosition.y) = 1}

IndexOfEnemy(id) == CHOOSE i \in 1..Len(enemies) : enemies[i].id = id

\* The side of the hero enemy i stands on: 1 north, 2 east, 3 south, 4 west.
SideOf(i) ==
    CASE enemies[i].position.y < heroPosition.y -> 1
      [] enemies[i].position.x > heroPosition.x -> 2
      [] enemies[i].position.y > heroPosition.y -> 3
      [] OTHER -> 4

\* Enemy i has its turn before enemy j when the order is by side, then by
\* definition.
SideBefore(i, j) == SideOf(i) < SideOf(j) \/ (SideOf(i) = SideOf(j) /\ i < j)

RECURSIVE SumDamage(_)
SumDamage(S) ==
    IF S = {} THEN 0
    ELSE LET i == CHOOSE k \in S : TRUE
         IN  enemies[i].damage + SumDamage(S \ {i})

\* The number of times id occurs in the sequence log.
Occurrences(log, id) == Cardinality({k \in 1..Len(log) : log[k] = id})

\* The current pass is over: every enemy of it had its turn, or the hero is down.
PassOver == pc = "pass" /\ (ai > Len(adjacentEnemies) \/ heroHealth <= 0)

IsGoalVerdict(v) == v.message.text \in {CompleteMessage.text, "Quest incomplete:"}

----------------------------------------------------------------------------
\* Properties

\* C1: a run in which the hero's health has dropped to <= 0, from retaliation
\* or from a counterattack, ends with exactly the defeat verdict:
\* onComplete(false, defeat message).
C1_DeathVerdict ==
    (RunOver /\ heroHealth <= 0) =>
        verdicts = <<[success |-> FALSE, message |-> DefeatMessage]>>

\* C2: no run in which the hero's health is <= 0 reports a verdict of the goal
\* evaluation (success, or the goal checklist).
C2_NoGoalEvaluationWhenDown ==
    heroHealth <= 0 => \A k \in 1..Len(verdicts) : ~IsGoalVerdict(verdicts[k])


\* C3 (as stated): in each retaliation pass every live enemy orthogonally
\* adjacent to the hero attacks once.
C3_EveryAdjacentEnemyAttacksEachPass ==
    PassOver => \A i \in AdjacentLive : Occurrences(passLog, enemies[i].id) = 1

InRetaliation == pc \in {"pass", "dying", "fallen"}

C3_PassInv ==
    \* only adjacent live enemies attack, and at most once per pass
    /\ InRetaliation =>
          \A i \in 1..Len(enemies) :
              /\ Occurrences(passLog, enemies[i].id) <= 1
              /\ Occurrences(passLog, enemies[i].id) = 1 => i \in AdjacentLive
    \* a pass that leaves the hero standing gave every adjacent live enemy a turn
    /\ (PassOver /\ heroHealth > 0) =>
          \A i \in AdjacentLive : Occurrences(passLog, enemies[i].id) = 1
    \* a pass is cut short only by the hit that brings the health to <= 0
    /\ (PassOver /\ heroHealth <= 0) =>
          /\ passLog # <<>>
          /\ heroHealth + enemies[IndexOfEnemy(passLog[Len(passLog)])].damage > 0
    \* the passes go on until the hero is down or no live enemy is adjacent
    /\ pc = "moved" => (heroHealth <= 0 \/ AdjacentLive = {})

C3_HitStep ==
    /\ passLog' # passLog /\ passLog' # <<>> =>
          heroHealth' = heroHealth
                          - enemies[IndexOfEnemy(passLog'[Len(passLog')])].damage
    /\ (pc \in {"checkAdjacent", "pass", "dying", "fallen"} /\ heroHealth' # heroHealth)
          => Len(passLog') = Len(passLog) + 1

\* C3 (amended): after a successful move and before the next command,
\* retaliation passes run; in a pass the live adjacent enemies attack once
\* each in turn (each hit takes that enemy's damage off the hero's health),
\* the pass stopping at the hit that brings the health to <= 0; passes are
\* repeated until no live adjacent enemy remains or the health is <= 0.
C3_RetaliationPasses == []C3_PassInv /\ [][C3_HitStep]_vars

\* C3 witness: a second pass begins after a first one in which two enemies
\* attacked.
C3_Witness ==
    pc = "pass" /\ passLog = <<>> /\ Cardinality(hitBy) >= 2 /\ heroHealth > 0

\* C4: on level 2-1, [move_forward, attack, attack, move_forward] leaves the
\* orc dead, the hero alive with health 80 and two cells further on.
C4_TwoAttackOrc ==
    (level = level_2_1 /\ commands = level_2_1.solutionCode /\ RunOver) =>
        /\ enemies[1].health <= 0
        /\ "orc1" \in defeatedEnemies
        /\ heroHealth = 80
        /\ ~heroDead
        /\ heroPosition = Pos(2, 1)

C6_BothAttack ==
    (pc = "moved" /\ Cardinality(AdjacentLive) >= 2) =>
        \A i \in AdjacentLive : enemies[i].id \in hitBy

\* C6 (amended): after a successful move next to two live enemies, each of
\* them has attacked before the next command, unless the hits of the enemies
\* whose turn comes before its first turn already took all the health the
\* hero had when it moved.
C6_BothAttackUnlessDown ==
    (pc = "moved" /\ Cardinality(AdjacentLive) >= 2) =>
        \A i \in AdjacentLive :
            \/ enemies[i].id \in hitBy
            \/ healthAtMove <= SumDamage({j \in AdjacentLive : SideBefore(j, i)})

\* C6 witness: the move has ended next to two live enemies that both attacked.
C6_Witness ==
    /\ pc = "moved"
    /\ Cardinality(AdjacentLive) = 2
    /\ \A i \in AdjacentLive : enemies[i].id \in hitBy

\* C7: once the hero's health is <= 0, no later step of the run changes the
\* hero's position, direction or health, an enemy's health, or the collected
\* and defeated sets.
C7_DeathTerminality ==
    [][(heroHealth <= 0 /\ pc # "idle") => UNCHANGED world]_vars

\* C7 witness: a run has returned with the hero down and commands left over.
C7_Witness == RunOver /\ heroHealth <= 0 /\ ci < Len(commands)

\* C8: at every command boundary the dead flag is true exactly when the
\* hero's health is <= 0.
C8_DeadFlagMatchesHealth ==
    pc = "loop" => (heroDead <=> heroHealth <= 0)

\* C9: a run with more commands than the level's maxExecutionSteps never
\* reports success and executes no command beyond the limit.
C9_StepLimit ==
    Len(commands) > level.maxExecutionSteps =>
        /\ \A k \in 1..Len(verdicts) : ~verdicts[k].success
        /\ pc \notin {"idle", "start", "loop"} => ci <= level.maxExecutionSteps

\* C10: the hero's position is always inside the grid.
C10_BoundsInvariant ==
    /\ 0 <= heroPosition.x /\ heroPosition.x < level.gridWidth
    /\ 0 <= heroPosition.y /\ heroPosition.y < level.gridHeight

\* C10 witness: a move whose target lies outside the grid has been rejected.
C10_Witness ==
    /\ pc = "delay"
    /\ commands[ci] \in {"move_forward", "move_backward"}
    /\ LET target == getPositionInDirection(heroPosition, heroDirection,
                        IF commands[ci] = "move_forward" THEN 1 ELSE -1)
       IN  \/ target.x < 0 \/ target.x > level.gridWidth - 1
           \/ target.y < 0 \/ target.y > level.gridHeight - 1

\* The command the loop is executing, or has just executed, is one of names.
CommandIs(names) == ci \in 1..Len(commands) /\ commands[ci] \in names

\* The cell a move command aims at, from where the hero stood when it began.
MoveTarget ==
    LET step == IF commands[ci] = "move_forward" THEN 1 ELSE -1
        d == CASE atCommand.heroDirection = "north" -> <<0, -1>>
               [] atCommand.heroDirection = "east" -> <<1, 0>>
               [] atCommand.heroDirection = "south" -> <<0, 1>>
               [] atCommand.heroDirection = "west" -> <<-1, 0>>
    IN  Pos(atCommand.heroPosition.x + d[1] * step,
            atCommand.heroPosition.y + d[2] * step)

\* C11: on a level whose start cell is not a wall, the hero never stands on
\* a wall cell.
C11_WallInvariant ==
    level.startPosition \notin level.walls => heroPosition \notin level.walls

\* C11 witness: a move whose target is a wall cell has been rejected.
C11_Witness ==
    /\ pc = "delay"
    /\ CommandIs({"move_forward", "move_backward"})
    /\ MoveTarget \in level.walls
    /\ level.startPosition \notin level.walls

StartsOffEnemies ==
    \A i \in 1..Len(level.enemies) :
        level.enemies[i].position # level.startPosition

C12_Inv ==
    StartsOffEnemies =>
        \A i \in 1..Len(enemies) :
            enemies[i].health > 0 => enemies[i].position # heroPosition

C12_EnterStep ==
    (StartsOffEnemies /\ pc # "idle" /\ heroPosition' # heroPosition) =>
        \A i \in 1..Len(enemies) :
            enemies[i].position = heroPosition' => enemies[i].health <= 0

\* C12: on a level that does not start the hero on an enemy, the hero never
\* stands on the cell of an enemy whose health is > 0, and a move enters the
\* cell of an enemy only when that enemy's health is <= 0.
C12_NeverOnLiveEnemy == []C12_Inv /\ [][C12_EnterStep]_vars

\* C12 witness: the hero stands on the cell of an enemy it has defeated.
C12_Witness ==
    /\ StartsOffEnemies
    /\ \E i \in 1..Len(enemies) :
          enemies[i].position = heroPosition /\ enemies[i].health <= 0

MoveCommands == {"move_forward", "move_backward"}

\* The target of the move is outside the grid, a wall cell, or the cell of an
\* enemy that had health > 0 when the command began.
MoveBlocked ==
    \/ MoveTarget.x < 0 \/ MoveTarget.x > level.gridWidth - 1
    \/ MoveTarget.y < 0 \/ MoveTarget.y > level.gridHeight - 1
    \/ MoveTarget \in level.walls
    \/ \E i \in 1..Len(atCommand.enemies) :
          /\ atCommand.enemies[i].position = MoveTarget
          /\ atCommand.enemies[i].health > 0

C13_MoveInv ==
    \* after a rejected move the world is as it was, and the hero is not down
    /\ (CommandIs(MoveCommands) /\ pc = "delay") =>
          /\ MoveBlocked
          /\ Snapshot = atCommand
          /\ ~heroDead /\ heroHealth > 0
    \* after an accepted move the hero stands on the target
    /\ (CommandIs(MoveCommands)
          /\ pc \in {"checkAdjacent", "pass", "dying", "fallen", "moved"}) =>
          /\ ~MoveBlocked
          /\ heroPosition = MoveTarget
          /\ heroDirection = atCommand.heroDirection

C13_MoveStep ==
    \* the move command itself: rejected exactly when blocked
    /\ (pc = "loop" /\ pc' # "loop" /\ pc' # "idle" /\ CommandIs(MoveCommands)) =>
          /\ pc' = (IF MoveBlocked THEN "delay" ELSE "checkAdjacent")
          /\ MoveBlocked =>
                UNCHANGED <<world, heroDead, verdicts, passLog, hitBy>>
    \* after a rejected move the loop goes on to the next command
    /\ (pc = "delay" /\ CommandIs(MoveCommands)) =>
          /\ pc' = "loop" /\ ci' = ci + 1
          /\ UNCHANGED <<world, heroDead, verdicts, passLog, hitBy>>

\* C13: move_forward and move_backward aim at position + delta(direction) x
\* step (step +1 and -1); the move is rejected exactly when the target is
\* outside the grid, a wall cell, or the cell of an enemy with health > 0; a
\* rejected move changes nothing in the world, triggers no retaliation, and
\* the run goes on with the next command.
C13_MoveRejection == []C13_MoveInv /\ [][C13_MoveStep]_vars

\* C13 witness: a move_backward into the cell of a live enemy has been
\* rejected, with a live enemy next to the hero.
C13_Witness ==
    /\ pc = "delay"
    /\ CommandIs({"move_backward"})
    /\ AdjacentLive # {}
    /\ \E i \in 1..Len(enemies) :
          enemies[i].position = MoveTarget /\ enemies[i].health > 0

\* The cell directly ahead of the hero when the current command began.
AheadCell ==
    LET d == CASE atCommand.heroDirection = "north" -> <<0, -1>>
               [] atCommand.heroDirection = "east" -> <<1, 0>>
               [] atCommand.heroDirection = "south" -> <<0, 1>>
               [] atCommand.heroDirection = "west" -> <<-1, 0>>
    IN  Pos(atCommand.heroPosition.x + d[1], atCommand.heroPosition.y + d[2])

\* The enemies that stood on that cell with health > 0 when the command began.
LiveAhead ==
    {i \in 1..Len(atCommand.enemies) :
        /\ atCommand.enemies[i].position = AheadCell
        /\ atCommand.enemies[i].health > 0}

\* The attack's target: the first of them in definition order.
Target == CHOOSE i \in LiveAhead : \A j \in LiveAhead : i <= j

InAttack == pc \in {"swing", "struck", "counter"}

C14_AttackInv ==
    /\ (pc = "delay" /\ CommandIs({"attack"}) /\ LiveAhead # {}) =>
          /\ enemies[Target].health = atCommand.enemies[Target].health - 20
          /\ \A i \in 1..Len(enemies) :
                enemies[i] = [atCommand.enemies[i] EXCEPT
                                !.health = IF i = Target THEN @ - 20 ELSE @]
          /\ IF enemies[Target].health <= 0
             THEN /\ defeatedEnemies =
                       atCommand.defeatedEnemies \cup {enemies[Target].id}
                  /\ heroHealth = atCommand.heroHealth
             ELSE /\ defeatedEnemies = atCommand.defeatedEnemies
                  /\ heroHealth = atCommand.heroHealth - enemies[Target].damage
          /\ heroPosition = atCommand.heroPosition
          /\ heroDirection = atCommand.heroDirection
          /\ collectedIds = atCommand.collectedIds
    /\ InAttack =>
          /\ heroPosition = atCommand.heroPosition
          /\ heroDirection = atCommand.heroDirection

\* No step of an attack command is a retaliation hit.
C14_AttackStep ==
    ((pc = "loop" /\ CommandIs({"attack"})) \/ InAttack) =>
        UNCHANGED <<passLog, hitBy, adjacentEnemies, ai>>

\* C14: an attack with a live enemy on the cell directly ahead takes exactly
\* 20 off that enemy's health and changes no other enemy; if the target's
\* health is then <= 0 its id joins the defeated set and the hero takes no
\* damage, otherwise the hero's health drops by exactly the target's damage;
\* the hero's position and direction stay, and no other enemy attacks.
C14_AttackEffect == []C14_AttackInv /\ [][C14_AttackStep]_vars

\* C14 witness: an attack has hit a target that survived and struck back,
\* while another live enemy stood next to the hero.
C14_Witness ==
    /\ pc = "delay" /\ CommandIs({"attack"}) /\ LiveAhead # {}
    /\ enemies[Target].health > 0
    /\ heroHealth < atCommand.heroHealth
    /\ \E j \in AdjacentLive : j # Target

\* C14 witness of the other case: the target was defeated by the attack,
\* and a live enemy next to the hero did nothing.
C14_WitnessDefeat ==
    /\ pc = "delay" /\ CommandIs({"attack"}) /\ LiveAhead # {}
    /\ enemies[Target].health <= 0
    /\ AdjacentLive # {}

C15_MissInv ==
    (pc = "delay" /\ CommandIs({"attack"}) /\ LiveAhead = {}) =>
        /\ Snapshot = atCommand
        /\ ~heroDead /\ heroHealth > 0

C15_MissStep ==
    /\ ((pc = "loop" /\ CommandIs({"attack"})) \/ InAttack) /\ LiveAhead = {} =>
          UNCHANGED <<world, heroDead, verdicts, passLog, hitBy>>
    /\ (pc = "delay" /\ CommandIs({"attack"}) /\ LiveAhead = {}) =>
          /\ pc' = "loop" /\ ci' = ci + 1
          /\ UNCHANGED <<world, heroDead, verdicts, passLog, hitBy>>

\* C15: an attack with no live enemy on the cell directly ahead (an empty
\* cell, a wall, a cell outside the grid, or the cell of an enemy whose health
\* is <= 0) changes no health and leaves the defeated set as it was, and the
\* run goes on with the next command.
C15_AttackMiss == []C15_MissInv /\ [][C15_MissStep]_vars

\* C15 witness: an attack at the cell of an enemy already defeated has missed.
C15_Witness ==
    /\ pc = "delay" /\ CommandIs({"attack"}) /\ LiveAhead = {}
    /\ \E i \in 1..Len(enemies) :
          /\ enemies[i].position = AheadCell
          /\ enemies[i].health <= 0
          /\ enemies[i].id \in defeatedEnemies

\* ceil(h / 20) for h > 0.
HitsToDefeat(h) == (h + 19) \div 20

\* C16: an enemy of initial health H > 0 is still alive after every
\* k < ceil(H/20) attacks that hit it, and is dead (health <= 0, id in the
\* defeated set once the attack has resolved) after exactly ceil(H/20) of
\* them; it is never hit more often.
C16_DamageArithmetic ==
    \A i \in 1..Len(enemies) :
        enemies[i].maxHealth > 0 =>
            /\ hits[i] <= HitsToDefeat(enemies[i].maxHealth)
            /\ hits[i] < HitsToDefeat(enemies[i].maxHealth) =>
                  /\ enemies[i].health > 0
                  /\ enemies[i].id \notin defeatedEnemies
            /\ hits[i] = HitsToDefeat(enemies[i].maxHealth) =>
                  /\ enemies[i].health <= 0
                  /\ pc # "struck" => enemies[i].id \in defeatedEnemies

\* C16 witness: an enemy whose initial health is not a multiple of 20 has
\* been defeated by its third hit, with the hero alive.
C16_Witness ==
    /\ heroHealth > 0
    /\ \E i \in 1..Len(enemies) :
          /\ enemies[i].maxHealth % 20 # 0
          /\ hits[i] = 3
          /\ HitsToDefeat(enemies[i].maxHealth) = 3
          /\ enemies[i].id \in defeatedEnemies

\* C17: the stored health of every enemy stays within 0..maxHealth.
C17_EnemyHealthRange ==
    \A i \in 1..Len(enemies) :
        0 <= enemies[i].health /\ enemies[i].health <= enemies[i].maxHealth

\* The ids of the enemies whose stored health is <= 0.
DeadEnemyIds == {enemies[i].id : i \in {j \in 1..Len(enemies) : enemies[j].health <= 0}}

EnemyIds == {level.enemies[i].id : i \in 1..Len(level.enemies)}

\* The run has ended with the goal checklist or the success verdict.
GoalsEvaluated == RunOver /\ verdicts # <<>> /\ IsGoalVerdict(verdicts[Len(verdicts)])

C18_Inv ==
    /\ defeatedEnemies \subseteq EnemyIds
    /\ Cardinality(defeatedEnemies) <= Len(level.enemies)
    /\ pc = "loop" => defeatedEnemies = DeadEnemyIds
    /\ GoalsEvaluated =>
          LET v == verdicts[Len(verdicts)]
              allDefeated == EnemyIds \subseteq defeatedEnemies
          IN  /\ \A g \in 1..Len(level.goals) :
                    level.goals[g].type = "defeat_enemies" =>
                        /\ v.success => allDefeated
                        /\ ~v.success => (v.message.lines[g].met <=> allDefeated)

C18_GrowStep == pc # "idle" => defeatedEnemies \subseteq defeatedEnemies'

\* C18: on levels whose enemies start with health > 0, the defeated set only
\* grows during a run, never holds more than the level's enemies, holds at
\* every command boundary exactly the ids of the enemies with health <= 0,
\* and the defeat_enemies goal is met iff every enemy of the level is in it.
C18_DefeatedSet == []C18_Inv /\ [][C18_GrowStep]_vars

\* C18 witness: a run on a level with two enemies has ended in success with
\* both defeated.
C18_Witness ==
    /\ GoalsEvaluated
    /\ verdicts[Len(verdicts)].success
    /\ Len(level.enemies) >= 2
    /\ \E g \in 1..Len(level.goals) : level.goals[g].type = "defeat_enemies"
    /\ defeatedEnemies = EnemyIds

\* C18: a run has ended with the defeat_enemies goal unmet and one of two
\* enemies defeated.
C18_WitnessPartial ==
    /\ GoalsEvaluated
    /\ Cardinality(defeatedEnemies) = 1
    /\ Len(level.enemies) = 2
    /\ \E g \in 1..Len(level.goals) :
          /\ level.goals[g].type = "defeat_enemies"
          /\ ~verdicts[Len(verdicts)].message.lines[g].met

\* The collectibles (indices) that lay uncollected on the hero's cell when
\* the current command began.
Collectable ==
    {i \in 1..Len(level.collectibles) :
        /\ level.collectibles[i].position = atCommand.heroPosition
        /\ level.collectibles[i].id \notin atCommand.collectedIds}

\* The collectibles (indices) on the start cell.
OnStartCell ==
    {i \in 1..Len(level.collectibles) :
        level.collectibles[i].position = level.startPosition}

CollectDone == pc = "delay" /\ CommandIs({"collect_sample"})

\* C19: a collect command collects at most one collectible, the first in
\* definition order that is uncollected and lies on the hero's cell; k
\* collect commands in a row on a cell collect the first k of its
\* collectibles in definition order.
C19_CollectFirstMatch ==
    /\ CollectDone =>
          /\ collectedIds =
                IF Collectable = {} THEN atCommand.collectedIds
                ELSE atCommand.collectedIds \cup
                       {level.collectibles[
                           CHOOSE i \in Collectable :
                               \A j \in Collectable : i <= j].id}
          /\ [Snapshot EXCEPT !.collectedIds = {}]
                = [atCommand EXCEPT !.collectedIds = {}]
    /\ (CollectDone /\ \A k \in 1..ci : commands[k] = "collect_sample") =>
          collectedIds =
              {level.collectibles[i].id :
                  i \in {j \in OnStartCell :
                            Cardinality({m \in OnStartCell : m < j}) < ci}}

\* C19 witness: on a cell with two collectibles, one collect command has
\* taken the first of them and left the second, a collectible defined before
\* both lying elsewhere.
C19_Witness ==
    /\ CollectDone
    /\ Cardinality(Collectable) = 2
    /\ Cardinality(collectedIds) = 1
    /\ \E i \in 1..Len(level.collectibles) :
          /\ i \notin Collectable
          /\ \A j \in Collectable : i < j

CollectibleIds == {level.collectibles[i].id : i \in 1..Len(level.collectibles)}

C20_Inv ==
    /\ collectedIds \subseteq CollectibleIds
    /\ Cardinality(collectedIds) <= Len(level.collectibles)
    /\ (CollectDone /\ Collectable = {}) => Snapshot = atCommand

C20_GrowStep ==
    pc # "idle" =>
        /\ collectedIds \subseteq collectedIds'
        /\ Cardinality(collectedIds' \ collectedIds) <= 1
        /\ collectedIds' # collectedIds =>
              pc = "loop" /\ CommandIs({"collect_sample"})

\* C20: a collect command on a cell with no uncollected collectible changes
\* nothing; during a run the collected set only grows, one id at a time and
\* only by a collect command, holds only ids of the level's collectibles and
\* never more of them than the level has.
C20_CollectIdempotence == []C20_Inv /\ [][C20_GrowStep]_vars

\* C20 witness: a collect command on a cell whose collectibles were all
\* collected already has changed nothing.
C20_Witness ==
    /\ CollectDone
    /\ Collectable = {}
    /\ \E i \in 1..Len(level.collectibles) :
          /\ level.collectibles[i].position = heroPosition
          /\ level.collectibles[i].id \in collectedIds
    /\ Cardinality(collectedIds) < Len(level.collectibles)

\* The verdict of the goal evaluation that ended the run.
FinalVerdict == verdicts[Len(verdicts)]

OnlyReachGoal ==
    /\ Len(level.goals) = 1
    /\ level.goals[1].type = "reach_position"
    /\ level.goals[1].target # <<>>

\* The commands of the run are k times move_forward.
Forward(k) == commands = [i \in 1..k |-> "move_forward"]

\* C22: on a level whose only goal is reach_position(target), a run the hero
\* survives ends in success iff the hero's final position is the target; on
\* level 1-1 three move_forward commands succeed, two or four do not.
C22_ReachPosition ==
    /\ (GoalsEvaluated /\ OnlyReachGoal) =>
          (FinalVerdict.success <=>
              (heroPosition.x = level.goals[1].target[1].x
                 /\ heroPosition.y = level.goals[1].target[1].y))
    /\ (RunOver /\ level = level_1_1 /\ (Forward(2) \/ Forward(3) \/ Forward(4))) =>
          /\ Len(verdicts) = 1
          /\ verdicts[1].success <=> Forward(3)

\* C22 witness: four move_forward commands on level 1-1 have taken the hero
\* past the target and the run has failed.
C22_Witness ==
    /\ RunOver /\ level = level_1_1 /\ Forward(4)
    /\ heroPosition = Pos(4, 1)
    /\ ~FinalVerdict.success

\* C23: a survive goal is met whenever the hero is not dead when the goals
\* are evaluated, so a level whose only goal is survive ends in success for
\* every command list the hero survives.
C23_SurviveGoal ==
    (GoalsEvaluated /\ ~heroDead /\ heroHealth > 0
       /\ \A g \in 1..Len(level.goals) : level.goals[g].type = "survive") =>
        FinalVerdict.success

\* The collected collectibles (indices) of the given type.
CollectedOfType(type) ==
    {i \in 1..Len(level.collectibles) :
        /\ level.collectibles[i].type = type
        /\ level.collectibles[i].id \in collectedIds}

\* C24: a collect_type(type, count) goal is met iff the number of collected
\* collectibles of the type is >= count, count being 1 only when the goal
\* gives none (a count of 0 is used as given).
C24_CollectTypeCount ==
    GoalsEvaluated =>
        \A g \in 1..Len(level.goals) :
            level.goals[g].type = "collect_type" =>
                LET count == IF level.goals[g].count = <<>> THEN 1
                             ELSE level.goals[g].count[1]
                    enough == Cardinality(
                        CollectedOfType(level.goals[g].collectibleType)) >= count
                IN  /\ FinalVerdict.success => enough
                    /\ ~FinalVerdict.success =>
                          (FinalVerdict.message.lines[g].met <=> enough)

----------------------------------------------------------------------------
\* The interpreter with every delay collapsed to zero: executeCommands as a
\* function from the command list to the final world and the verdicts.

\* The world resetGame leaves, with no verdict yet.
SyncStart ==
    [heroPosition |-> level.startPosition,
     heroDirection |-> directionFromType(level.startDirection),
     heroHealth |-> 100, heroDead |-> FALSE,
     enemies |-> [i \in 1..Len(level.enemies) |->
                    [id |-> level.enemies[i].id,
                     health |-> level.enemies[i].health,
                     maxHealth |-> level.enemies[i].health,
                     damage |-> level.enemies[i].damage,
                     position |-> level.enemies[i].position]],
     collectedIds |-> {}, defeatedEnemies |-> {}, verdicts |-> <<>>]

\* The enemies of s (indices, in order) alive on cell p.
SyncLiveAt(s, p) ==
    LET Here(i) == s.enemies[i].position = p /\ s.enemies[i].health > 0
    IN  SelectSeq([i \in 1..Len(s.enemies) |-> i], Here)

SyncCell(s, dir, steps) ==
    Pos(s.heroPosition.x + deltas(dir).x * steps,
        s.heroPosition.y + deltas(dir).y * steps)

SyncFree(s, p) ==
    /\ p.x >= 0 /\ p.x < level.gridWidth
    /\ p.y >= 0 /\ p.y < level.gridHeight
    /\ p \notin level.walls
    /\ SyncLiveAt(s, p) = <<>>

SyncAdjacent(s) ==
    SyncLiveAt(s, SyncCell(s, "north", 1)) \o SyncLiveAt(s, SyncCell(s, "east", 1))
      \o SyncLiveAt(s, SyncCell(s, "south", 1)) \o SyncLiveAt(s, SyncCell(s, "west", 1))

\* One hit of a retaliation pass, with handleHeroDeath when it is lethal.
SyncHit(s, i) ==
    LET hit == [s EXCEPT !.heroHealth = @ - s.enemies[i].damage]
    IN  IF hit.heroHealth <= 0
        THEN [hit EXCEPT !.heroDead = TRUE,
                         !.verdicts = Append(@, [success |-> FALSE,
                                                 message |-> DefeatMessage])]
        ELSE hit

\* The for loop of checkAdjacentEnemies from the k-th enemy of the pass on.
RECURSIVE SyncPass(_, _, _)
SyncPass(s, adj, k) ==
    IF k > Len(adj) \/ s.heroHealth <= 0 THEN s
    ELSE SyncPass(SyncHit(s, adj[k]), adj, k + 1)

\* The while loop of checkAdjacentEnemies.
RECURSIVE SyncRetaliate(_)
SyncRetaliate(s) ==
    IF s.heroHealth > 0 /\ ~s.heroDead /\ SyncAdjacent(s) # <<>>
    THEN SyncRetaliate(SyncPass(s, SyncAdjacent(s), 1))
    ELSE s

SyncMove(s, steps) ==
    LET p == SyncCell(s, s.heroDirection, steps)
    IN  IF SyncFree(s, p) THEN SyncRetaliate([s EXCEPT !.heroPosition = p]) ELSE s

SyncCollect(s) ==
    LET Here(i) == /\ level.collectibles[i].position = s.heroPosition
                   /\ level.collectibles[i].id \notin s.collectedIds
        found == SelectSeq([i \in 1..Len(level.collectibles) |-> i], Here)
    IN  IF found = <<>> THEN s
        ELSE [s EXCEPT !.collectedIds = @ \cup {level.collectibles[Head(found)].id}]

SyncAttack(s) ==
    LET ahead == SyncLiveAt(s, SyncCell(s, s.heroDirection, 1))
        t == Head(ahead)
        hit == [s EXCEPT !.enemies[t].health = @ - 20]
    IN  IF ahead = <<>> THEN s
        ELSE IF hit.enemies[t].health <= 0
             THEN [hit EXCEPT !.defeatedEnemies = @ \cup {hit.enemies[t].id}]
             ELSE [hit EXCEPT !.heroHealth = @ - hit.enemies[t].damage]

\* executeCommand.
SyncCommand(s, command) ==
    CASE command = "move_forward" -> SyncMove(s, 1)
      [] command = "move_backward" -> SyncMove(s, -1)
      [] command = "turn_left" ->
            [s EXCEPT !.heroDirection = turns(@, "left")]
      [] command = "turn_right" ->
            [s EXCEPT !.heroDirection = turns(@, "right")]
      [] command = "collect_sample" -> SyncCollect(s)
      [] command = "attack" -> SyncAttack(s)
      [] OTHER -> s

\* checkWinCondition on s.
SyncGoalMet(s, goal) ==
    CASE goal.type = "reach_position" ->
            goal.target # <<>> /\ s.heroPosition = goal.target[1]
      [] goal.type = "collect_all" ->
            Cardinality(s.collectedIds) = Len(level.collectibles)
      [] goal.type = "collect_type" ->
            Cardinality({i \in 1..Len(level.collectibles) :
                            /\ level.collectibles[i].type = goal.collectibleType
                            /\ level.collectibles[i].id \in s.collectedIds})
               >= (IF goal.count = <<>> \/ goal.count[1] = 0 THEN 1
                   ELSE goal.count[1])
      [] goal.type = "defeat_enemies" ->
            Cardinality(s.defeatedEnemies) = Len(level.enemies)
      [] OTHER -> FALSE

SyncVerdict(s) ==
    LET lines == [g \in 1..Len(level.goals) |->
                    [met |-> SyncGoalMet(s, level.goals[g]),
                     description |-> level.goals[g].description]]
    IN  IF \A g \in 1..Len(level.goals) : lines[g].met
        THEN [success |-> TRUE, message |-> CompleteMessage]
        ELSE [success |-> FALSE, message |-> IncompleteMessage(lines)]

\* The loop of executeCommands from the k-th command on, and its tail.
RECURSIVE SyncLoop(_, _, _)
SyncLoop(s, cmds, k) ==
    IF k > Len(cmds)
    THEN IF s.heroDead THEN s
         ELSE [s EXCEPT !.verdicts = Append(@, SyncVerdict(s))]
    ELSE IF s.heroDead \/ s.heroHealth <= 0 THEN s
         ELSE SyncLoop(SyncCommand(s, cmds[k]), cmds, k + 1)

SyncRun(cmds) == SyncLoop(SyncStart, cmds, 1)

\* The final state of the run as SyncRun reports it.
FinalState ==
    [heroPosition |-> heroPosition, heroDirection |-> heroDirection,
     heroHealth |-> heroHealth, heroDead |-> heroDead, enemies |-> enemies,
     collectedIds |-> collectedIds, defeatedEnemies |-> defeatedEnemies,
     verdicts |-> verdicts]

\* C26: the run with its animation delays ends in the same world state and
\* with the same verdicts as the interpreter with every delay collapsed to
\* zero.
C26_DelaysCollapse == RunOver => FinalState = SyncRun(commands)

\* C26 witness: a run with a move, retaliation and the hero's death, whose
\* steps are spread over many delays, has ended.
C26_Witness ==
    /\ RunOver
    /\ heroDead
    /\ Cardinality(hitBy) >= 2
    /\ verdicts # <<>>

\* C26 witness: a run that ended in success after an attack the target
\* answered.
C26_WitnessSuccess ==
    /\ RunOver
    /\ heroHealth \in 1..99
    /\ verdicts # <<>> /\ FinalVerdict.success

\* C29: every run that was started has, when executeCommands returns,
\* delivered exactly one verdict.
C29_ExactlyOneVerdict == RunOver => Len(verdicts) = 1

\* The commands of the run without those the interpreter has no case for.
KnownCommands ==
    LET Known(c) == c \in GameCommand IN SelectSeq(commands, Known)

C30_Inv ==
    \* the command itself changes nothing and leaves the hero standing
    /\ (pc = "delay" /\ CommandIs({UnknownCommand})) =>
          /\ Snapshot = atCommand
          /\ ~heroDead /\ heroHealth > 0
    \* the run ends in the world the list without it ends in, and, the hero
    \* alive, with the same verdict
    /\ RunOver =>
          LET without == SyncRun(KnownCommands)
          IN  /\ [FinalState EXCEPT !.verdicts = <<>>]
                    = [without EXCEPT !.verdicts = <<>>]
              /\ heroHealth > 0 => verdicts = without.verdicts

C30_Step ==
    (pc = "delay" /\ CommandIs({UnknownCommand})) =>
        /\ pc' = "loop" /\ ci' = ci + 1
        /\ UNCHANGED <<world, heroDead, verdicts>>

\* C30: a command outside the interpreter's known set changes nothing in
\* the world, and the other commands of the list are executed as if it were
\* absent.
C30_UnknownIgnored == []C30_Inv /\ [][C30_Step]_vars

\* C30 witness: a run has ended in which an unknown command stood between
\* two commands that both changed the world.
C30_Witness ==
    /\ RunOver
    /\ Len(commands) = 3
    /\ commands[2] = UnknownCommand
    /\ commands[1] = "collect_sample" /\ commands[3] = "collect_sample"
    /\ Cardinality(collectedIds) = 2

\* C25: every run starts from the level's initial state, whatever an
\* earlier finished run left behind, and so ends with the hero position,
\* direction and health, the collected and defeated sets and the verdict
\* that its command list produces on a freshly initialised scene.
C25_FreshStart ==
    /\ pc = "start" =>
          [FinalState EXCEPT !.verdicts = <<>>] = SyncStart
    /\ RunOver =>
          LET fresh == SyncRun(commands)
          IN  /\ heroPosition = fresh.heroPosition
              /\ heroDirection = fresh.heroDirection
              /\ heroHealth = fresh.heroHealth
              /\ collectedIds = fresh.collectedIds
              /\ defeatedEnemies = fresh.defeatedEnemies
              /\ verdicts = fresh.verdicts

\* C25 witness: a run is starting on a scene on which an earlier run has
\* finished.
C25_Witness == pc = "start" /\ afterRun /\ isExecuting

\* C27: a call of executeCommands that arrives while an earlier call has
\* not returned (the scene not having been restarted meanwhile) changes
\* neither the world nor the verdicts.
C27_SingleRun ==
    [][(pc # "idle" /\ ~abandoned /\ overlap' # overlap) =>
          UNCHANGED <<world, heroDead, verdicts>>]_vars

\* A step of the current call of executeCommands.
RunStep == <<pc, ci, ai>>' # <<pc, ci, ai>>

\* C28: after the scene has been restarted during a call of executeCommands,
\* that call changes nothing more in the world and delivers no verdict.
C28_AbandonedRunInert ==
    [][(abandoned /\ RunStep) => UNCHANGED <<world, heroDead, verdicts>>]_vars

----------------------------------------------------------------------------
\* Turning

TurnCommands == {"turn_left", "turn_right"}

\* The compass in the order a left turn goes through it.
LeftCycle == <<"north", "west", "south", "east">>

CycleIndex(dir) == CHOOSE i \in 1..4 : LeftCycle[i] = dir

\* dir after k quarter turns to the left.
Rotate(dir, k) == LeftCycle[((CycleIndex(dir) - 1 + k) % 4) + 1]

\* A turn to the right counts as three to the left.
QuarterTurns(command) == IF command = "turn_left" THEN 1 ELSE 3

RECURSIVE SumQuarterTurns(_, _)
SumQuarterTurns(cmds, n) ==
    IF n = 0 THEN 0 ELSE SumQuarterTurns(cmds, n - 1) + QuarterTurns(cmds[n])

\* The commands executed so far (all but the one the loop is at, and that one
\* too once it has been carried out) are all turns; n is their number.
TurnedSoFar == IF pc \in {"delay", "moved"} THEN ci ELSE ci - 1

OnlyTurnsSoFar ==
    /\ pc \in {"loop", "delay", "idle"}
    /\ ci > 0
    /\ TurnedSoFar <= Len(commands)
    /\ \A i \in 1..TurnedSoFar : commands[i] \in TurnCommands

\* After a turn command everything but the direction is as the command
\* found it, the direction is one step along the cycle, and the command is
\* over (the loop is at its delay, no retaliation pass was begun); after a
\* prefix of turns only, the direction is the start direction rotated by the
\* sum of the turns, so a left and a right turn cancel and four equal turns
\* are the identity.
C31_Inv ==
    /\ (pc = "delay" /\ CommandIs(TurnCommands)) =>
          /\ Snapshot = [atCommand EXCEPT
                            !.heroDirection = Rotate(atCommand.heroDirection,
                                                     QuarterTurns(commands[ci]))]
          /\ commands[ci] = "turn_left" =>
                heroDirection =
                    (CASE atCommand.heroDirection = "north" -> "west"
                       [] atCommand.heroDirection = "west" -> "south"
                       [] atCommand.heroDirection = "south" -> "east"
                       [] atCommand.heroDirection = "east" -> "north")
    /\ OnlyTurnsSoFar =>
          /\ heroDirection = Rotate(initialState.heroDirection,
                                    SumQuarterTurns(commands, TurnedSoFar))
          /\ heroPosition = initialState.heroPosition
          /\ heroHealth = heroMaxHealth
          /\ enemies = drawEnemies
          /\ collectedIds = {} /\ defeatedEnemies = {}
          /\ ~heroDead

\* A turn command that the loop reaches with the hero up is carried out in
\* one step whatever the grid holds, and that step ends the command.
C31_TurnStep ==
    /\ (pc = "loop" /\ CommandIs(TurnCommands) /\ ~heroIsDown) => ENABLED TurnHero
    /\ (pc = "loop" /\ CommandIs(TurnCommands) /\ pc' # pc) =>
          \/ pc' = "delay" /\ heroDirection' # heroDirection
                /\ hitBy' = hitBy /\ passLog' = passLog /\ heroDead' = heroDead
          \/ heroIsDown /\ UNCHANGED world

\* C31: turn_left and turn_right always succeed and change only the hero's
\* direction (position, health, enemies and sets unchanged, no retaliation):
\* turn_left maps north->west->south->east->north, turn_right is its inverse,
\* turn_left followed by turn_right is the identity, and four equal turns are
\* the identity.
C31_TurnAlgebra == []C31_Inv /\ [][C31_TurnStep]_vars

\* C31 witness: four turn_right commands, begun beside a live enemy on level
\* 2-1 or facing the wall-free start of another level, have brought the hero
\* back to the start direction.
C31_Witness ==
    /\ RunOver
    /\ commands = [i \in 1..4 |-> "turn_right"]
    /\ heroDirection = initialState.heroDirection
    /\ getAdjacentEnemies # <<>>

\* C31 witness: a left turn undone by a right turn.
C31_WitnessInverse ==
    /\ pc = "delay" /\ ci = 2
    /\ commands[1] = "turn_left" /\ commands[2] = "turn_right"
    /\ heroDirection = initialState.heroDirection
    /\ atCommand.heroDirection # heroDirection

----------------------------------------------------------------------------
\* Termination

\* C32: every run terminates: for every level whose enemies have non-negative
\* integer damage (damage 0 included) and every finite command list,
\* executeCommands eventually returns and the scene leaves the executing
\* state, so that a later run can be started.
C32_Termination == (pc # "idle") ~> (pc = "idle" /\ ~isExecuting)

\* The levels whose enemies all do damage.
AllEnemiesHarm == \A i \in 1..Len(level.enemies) : level.enemies[i].damage > 0

\* Termination of the runs on the levels whose enemies all do damage.
TerminationWhenHarmed == (pc # "idle" /\ AllEnemiesHarm) ~> (pc = "idle" /\ ~isExecuting)

----------------------------------------------------------------------------
\* The catalog

\* allowedCommands of the catalog's levels.
allowedCommands(l) ==
    CASE l.id = "1-1" -> {"move_forward"}
      [] l.id = "1-2" -> {"move_forward", "turn_left", "turn_right"}
      [] l.id = "1-3" -> {"move_forward", "turn_left", "turn_right", "collect_sample"}
      [] OTHER -> {"move_forward", "turn_left", "turn_right", "attack"}

\* A run that has come to s executes no further command.
SyncHalted(s) == s.heroDead \/ s.heroHealth <= 0

\* The states that runs of at most n more allowed commands end in, from the
\* states S.
RECURSIVE SyncReach(_, _)
SyncReach(S, n) ==
    LET T == S \cup {SyncCommand(s, c) : s \in {t \in S : ~SyncHalted(t)},
                                         c \in allowedCommands(level)}
    IN  IF n = 0 \/ T = S THEN S ELSE SyncReach(T, n - 1)

\* Some list of at most maxExecutionSteps allowed commands ends with the
\* verdict success.
Solvable ==
    \E s \in SyncReach({SyncStart}, level.maxExecutionSteps) :
        ~s.heroDead /\ SyncVerdict(s).success

\* C33: every level of the catalog is solvable: some list of at most
\* maxExecutionSteps commands, all among the level's allowedCommands, has a
\* run that ends with the verdict success.
C33_CatalogSolvable == (pc = "start" /\ level \in CatalogLevels) => Solvable

\* The levels of the catalog without enemies are solvable.
SolvableWithoutEnemies ==
    (pc = "start" /\ level \in CatalogLevels /\ level.enemies = <<>>) => Solvable

\* On the levels of the catalog with enemies no run ends in success.
NoSuccessAmongEnemies ==
    (level \in CatalogLevels /\ level.enemies # <<>>) =>
        \A i \in 1..Len(verdicts) : ~verdicts[i].success

\* The run of the level's own solution is over.
RanSolution == RunOver /\ level \in CatalogLevels /\ commands = level.solutionCode

\* C34: for every level of the catalog, the run of the commands of its
\* solutionCode ends with the verdict success (all goals met, hero alive).
C34_SolutionSucceeds ==
    RanSolution =>
        /\ Len(verdicts) = 1
        /\ verdicts[1].success
        /\ heroHealth > 0 /\ ~heroDead

----------------------------------------------------------------------------
\* The script bridge

Range(f) == {f[i] : i \in DOMAIN f}

\* The calls of command functions that a script makes, in call order.
CallsOf(script) ==
    LET IsCommand(stmt) == stmt \in GameCommand IN SelectSeq(script, IsCommand)

\* The script of the call uses an undefined name, so it raises.
ScriptRaises == "undefined_name" \in Range(code)

\* The runner can run a script: initialize has completed and destroy has
\* not been called since.
RunnerReady == initialized /\ pyodide # "null"

\* A call of runCode never ends in an exception; a call refused by the guard
\* has returned the loading error; a call that has returned has either
\* success with no error, and then its script completed, or failure with an
\* empty command list and an error message, and a script that raises is
\* among the failures.
C35_Inv ==
    /\ rpc # "threw"
    /\ rpc = "refused" => result = RunnerResult(FALSE, <<>>, LoadingMessage)
    /\ rpc \in {"refused", "done"} =>
          /\ result.success \in BOOLEAN
          /\ result.success => ~ScriptRaises /\ result.error = ""
          /\ ~result.success => result.commands = <<>> /\ result.error # ""
    /\ (rpc = "done" /\ ScriptRaises) => ~result.success

\* A call made while the runner is not ready is refused at once; a call made
\* while it is ready goes on to its script.
C35_CallStep ==
    (Callable /\ rpc' # rpc) =>
        IF RunnerReady THEN rpc' = "script" ELSE rpc' = "refused" /\ py' = py

\* C35: runCode never throws: called before initialize has completed or
\* after destroy, and whenever the script raises, it returns success=false
\* with an empty command list and an error message (no partially recorded
\* commands are returned); only a script that completes returns success=true.
C35_RunCodeNeverThrows == []C35_Inv /\ [][C35_CallStep]_vars

\* C35 witness: a script raised after it had recorded a command; runCode has
\* returned failure with no command, and the command is still in _commands.
C35_Witness ==
    /\ rpc = "done" /\ ScriptRaises
    /\ py.commands # <<>>
    /\ result = RunnerResult(FALSE, <<>>, formatError("NameError"))

\* C35 witness: a call after destroy.
C35_WitnessDestroyed ==
    /\ rpc = "refused" /\ py.defined /\ pyodide = "null"
    /\ result.error = LoadingMessage

\* C36: a successful runCode returns exactly the command-function calls made
\* by the script of that invocation, in call order; commands recorded by an
\* earlier invocation (successful, or failed part-way through) never appear
\* in a later invocation's result.
C36_OwnCommandsOnly ==
    (rpc = "done" /\ result.success) => result.commands = CallsOf(code)

\* A call during which no interpreter was loaded returns its own script's
\* calls, whatever earlier calls have left in _commands.
OwnCommandsUnlessReloaded ==
    (rpc = "done" /\ result.success /\ ~reloaded) =>
        result.commands = CallsOf(code)

\* A successful call that found commands of an earlier call in _commands,
\* other than its own.
LeftoverNotReturned ==
    /\ rpc = "done" /\ result.success /\ ~reloaded
    /\ leftover # <<>>
    /\ result.commands # <<>>
    /\ result.commands # leftover

\* The state of the game after the commands cmds, as the scene would run them.
SensedAhead(cmds) ==
    LET s == SyncRun(cmds)
    IN  SyncLiveAt(s, SyncCell(s, s.heroDirection, 1)) # <<>>

SensedHealth(cmds) == SyncRun(cmds).heroHealth

\* C37: the sensor functions reflect the simulated game state at the point
\* of the call: get_enemy_ahead() returns True exactly when, after the
\* commands the script has issued so far, a live enemy occupies the cell
\* directly ahead of the hero, and get_health() returns the hero's health at
\* that point.
C37_SensorsReflectGame ==
    \A i \in 1..Len(sensed) :
        /\ sensed[i].fn = "get_enemy_ahead" =>
              (sensed[i].enemy_ahead <=> SensedAhead(sensed[i].issued))
        /\ sensed[i].fn = "get_health" =>
              sensed[i].hero_health = SensedHealth(sensed[i].issued)

\* get_enemy_ahead() and get_health() return the defaults of ROVER_API
\* whatever the script has issued.
SensorsAreConstant ==
    \A i \in 1..Len(sensed) :
        ~sensed[i].enemy_ahead /\ sensed[i].hero_health = ROVER_API.hero_health

----------------------------------------------------------------------------
\* Progress

\* C38: getProgress returns the default progress (no completed levels, zero
\* total stars) whenever nothing is stored or storage is unavailable, also
\* after earlier callers have mutated a progress object it returned before
\* (pushed a completed level) and after clearAllData.
C38_DefaultProgress ==
    (~storageAvailable \/ stored.kind = "none") =>
        /\ getProgress.completedLevels = <<>>
        /\ getProgress.totalStars = 0

\* As long as no caller has pushed onto a default record, the default
\* progress is what getProgress returns when nothing usable is stored.
DefaultWhileUntouched ==
    (defaultCompleted = <<>> /\ (~storageAvailable \/ stored.kind # "json")) =>
        /\ getProgress.completedLevels = <<>>
        /\ getProgress.totalStars = 0

OneEntryPerLevel(completedLevels) ==
    \A i, j \in 1..Len(completedLevels) :
        completedLevels[i].levelId = completedLevels[j].levelId => i = j

\* C39: over any sequence of success verdicts (of the same or of different
\* levels, with storage available or not) the progress getProgress returns
\* has at most one completedLevels entry per levelId, and its totalStars is
\* 3 times the number of its completedLevels entries.
C39_StarsMatchLevels ==
    /\ OneEntryPerLevel(getProgress.completedLevels)
    /\ getProgress.totalStars = 3 * Len(getProgress.completedLevels)

\* The first half of C39 alone.
C39_NoDuplicateLevels == OneEntryPerLevel(getProgress.completedLevels)

====
